---------------------------- MODULE Spec2Model ----------------------------
(***************************************************************************)
(* Model of the tabular record normalizer of sheet_to_json.py:            *)
(* _col_to_index, SheetProcessor.__init__, process, _process_row,          *)
(* _parse_singers and _sort_key; of its main with SheetCopier; and of      *)
(* main, AutoPR.run and the monitor thread of scripts/auto_pr.py; of      *)
(* monitor_pr of scripts/monitor_pr.py; of fix_all_errors and             *)
(* verify_fixes of scripts/fix_workflow_errors.py; and of main of         *)
(* scripts/cleanup_drive_storage.py.                                      *)
(*                                                                         *)
(* Representation.  A Python str is a sequence of characters; a character  *)
(* is an atom written as a one-character TLA+ string ("A", ",", " ").      *)
(* The two characters of the crossover marker (U+8D8A U+5883) are the      *)
(* atoms "U+8D8A" and "U+5883".  A grid row is a sequence of str, the grid *)
(* a sequence of rows.  A dict is a sequence of entries in insertion       *)
(* order.  A record value is tagged with its Python type, because the      *)
(* empty str and the empty list are both the empty sequence:               *)
(* [t |-> "str", v |-> s] or [t |-> "list", v |-> <<s1, ..., sn>>].        *)
(***************************************************************************)
EXTENDS Integers, Sequences, FiniteSets, TLC

VARIABLES
    config,          \* the Config handed to SheetProcessor.__init__
    sheet_data,      \* the grid handed to process
    array_keys,      \* self._array_keys
    ordered_keys,    \* self._ordered_keys
    pc,              \* position of the processor: idle, loop, done, raised
    start_col_idx,   \* local of process
    end_col_idx,     \* local of process
    data_rows,       \* local of process: sheet_data[data_start_row - 1:]
    next_row,        \* position of the for loop in data_rows (1-based)
    processed_list,  \* local of process, returned when pc = "done"
    exc,             \* the exception that left process, "none" otherwise
    emitted,         \* history: <<grid row number, record>> in append order
    calls,           \* history: number of calls of process started
    outcomes,        \* history: outcome of every finished call
    label,           \* argument of a direct call of _col_to_index
    col_result       \* its outcome: [status, value], status "pending" before

VARIABLES
    cell_value,      \* the str of a cell handed to a splitting function
    tok_result       \* its outcome: [status, by, tokens]

VARIABLES
    mpc,             \* position of main of sheet_to_json.py
    copied_file_id,  \* SheetCopier.copied_file_id, "None" before the copy
    leaving,         \* how the with block is left: "none", "return" or the
                     \* name of the exception that propagates
    handled,         \* the except clause of main that caught the exception
    written,         \* the JSON file has been written
    drive,           \* the copies this run has made that are on the drive
    delete_requests, \* history: the ids a delete request was issued for
    delete_failed    \* history: the ids whose delete request failed

VARIABLES
    apc,             \* position of the main thread of scripts/auto_pr.py
    no_monitor,      \* args.no_monitor
    pr_title,        \* the title of the pull request: "None", "given", "default"
    pr_body,         \* its body, likewise
    pr_number,       \* the number create_pr returned, 0 for None
    monitoring,      \* AutoPR.monitoring
    monitor_thread,  \* AutoPR.monitor_thread: "None", "started", "waiting",
                     \* "finally", "ending", "dead"
    subprocess,      \* the monitor_pr.py subprocess: "none", "running", "ended"
    exit_status,     \* "running", or how the script ended: "exit 0", "exit 1"
    monitor_started, \* history: start_monitoring has been called
    \* monitor_pr of scripts/monitor_pr.py
    mon_pc,          \* "idle", "poll", "sleep", "left"
    check_count,     \* the polls made so far
    pr_info,         \* what get_pr_status returned last: "None" before the
                     \* first poll, [ok |-> FALSE] for {}, or
                     \* [ok |-> TRUE, checks |-> the statusCheckRollup list]
    mon_report,      \* what was printed on leaving the loop: "none",
                     \* "all complete", "complete with failures"
    \* WorkflowErrorFixer of scripts/fix_workflow_errors.py
    fpc,             \* where fix_all_errors is: "idle", "parse", "config",
                     \* "format", "lint", "yaml", "commit", "verify_wait",
                     \* "verify_loop", "returned"
    fix_pr,          \* self.pr_number, 0 for None
    errors,          \* what parse_error_from_comments returned
    errors_fixed,    \* self.errors_fixed
    fixed_any,       \* the local of fix_all_errors
    elapsed,         \* the local of verify_fixes
    fix_returned,    \* what fix_all_errors returned: "none", "True", "False"
    verify_returned, \* what verify_fixes returned: "none", "True", "False"
    steps,           \* history: the fix steps called, each with its result
    commit_status,   \* history: how far commit_and_push_fixes got: "none",
                     \* "nothing", "unchanged", "commit failed",
                     \* "push failed", "pushed"
    polls,           \* history: the status polls verify_fixes has made
    last_poll,       \* history: what the last poll observed
    \* main of scripts/cleanup_drive_storage.py
    cpc,             \* "idle", "find", "temp", "old", "after", "returned"
    listing,         \* the files service.files().list returns
    present,         \* the ids of the files on the Drive
    temp_files,      \* cleanup_candidates["temp_files"]
    old_files,       \* limited_old_files once the old files are being deleted,
                     \* cleanup_candidates["old_files"] before
    next_file,       \* the position of cleanup_files in its list
    total_deleted,   \* the locals of main
    total_errors,
    requests,        \* history: the ids delete was requested for, in order
    failures         \* history: the delete requests that raised HttpError,
                     \* each with whether the file was gone already

\* the variables of SheetProcessor and process
procVars == <<config, sheet_data, array_keys, ordered_keys, pc, start_col_idx,
              end_col_idx, data_rows, next_row, processed_list, exc, emitted,
              calls, outcomes>>

\* the variables of a direct call of _col_to_index
colVars == <<label, col_result>>

\* the variables of a direct call of a splitting function
tokVars == <<cell_value, tok_result>>

\* the variables of main of sheet_to_json.py
mainVars == <<mpc, copied_file_id, leaving, handled, written, drive,
              delete_requests, delete_failed>>

\* the variables of main of scripts/auto_pr.py
prVars == <<apc, no_monitor, pr_title, pr_body, pr_number, monitoring,
            monitor_thread, subprocess, exit_status, monitor_started>>

\* the variables of monitor_pr
monVars == <<mon_pc, check_count, pr_info, mon_report>>

\* the variables of WorkflowErrorFixer.fix_all_errors
fixVars == <<fpc, fix_pr, errors, errors_fixed, fixed_any, elapsed, fix_returned,
             verify_returned, steps, commit_status, polls, last_poll>>

\* the variables of main of cleanup_drive_storage.py
cleanVars == <<cpc, listing, present, temp_files, old_files, next_file,
               total_deleted, total_errors, requests, failures>>

\* the variables of the maintenance scripts
scriptVars == <<monVars, fixVars, cleanVars>>

vars == <<procVars, colVars, tokVars, mainVars, prVars, scriptVars>>

-----------------------------------------------------------------------------
(* Bounds of the model *)

\* rows of a grid
MaxRows == 3

\* rows of a grid that process is called on repeatedly
MaxRepeatRows == 2

\* calls of process on one grid
MaxCalls == 2

\* characters of a column label
MaxLabelLen == 3

\* characters of a cell handed to a splitting function
MaxValueLen == 5

\* characters of a cell of the brand column
MaxBrandLen == 4

\* checks in the status-check list of a pull request
MaxChecks == 2

\* polls of monitor_pr
MaxPolls == 3

\* error messages of one kind in the comments of a pull request
MaxMessages == 1

\* verify_fixes: wait_seconds, max_wait and check_interval, in seconds
wait_seconds == 30

max_wait == 300

check_interval == 10

\* files on the Drive
MaxFiles == 2

\* find_cleanup_candidates: timedelta(days=30)
thirty_days == 30

\* main of cleanup_drive_storage.py: sorted_old_files[:100]
old_files_limit == 100

-----------------------------------------------------------------------------
(* Characters *)

UpperLetters ==
    <<"A", "B", "C", "D", "E", "F", "G", "H", "I", "J", "K", "L", "M",
      "N", "O", "P", "Q", "R", "S", "T", "U", "V", "W", "X", "Y", "Z">>

LowerLetters ==
    <<"a", "b", "c", "d", "e", "f", "g", "h", "i", "j", "k", "l", "m",
      "n", "o", "p", "q", "r", "s", "t", "u", "v", "w", "x", "y", "z">>

Digits == <<"0", "1", "2", "3", "4", "5", "6", "7", "8", "9">>

Range(seq) == {seq[i] : i \in DOMAIN seq}

PosIn(seq, c) == CHOOSE i \in DOMAIN seq : seq[i] = c

\* ord(char), for the characters the model uses
Ord(c) ==
    IF c \in Range(UpperLetters) THEN 64 + PosIn(UpperLetters, c)
    ELSE IF c \in Range(LowerLetters) THEN 96 + PosIn(LowerLetters, c)
    ELSE IF c \in Range(Digits) THEN 47 + PosIn(Digits, c)
    ELSE CASE c = " " -> 32
           [] c = "+" -> 43
           [] c = "," -> 44
           [] c = "-" -> 45
           [] c = ":" -> 58
           [] c = "?" -> 63
           [] c = "[" -> 91
           [] c = "]" -> 93
           [] c = "U+5883" -> 22659
           [] c = "U+8D8A" -> 36234

\* str.upper() on one character
UpperChar(c) ==
    IF c \in Range(LowerLetters) THEN UpperLetters[PosIn(LowerLetters, c)] ELSE c

\* str.upper()
Upper(s) == [i \in DOMAIN s |-> UpperChar(s[i])]

\* str.isspace() on one character; the blank is the only whitespace modelled
IsSpace(c) == c = " "

-----------------------------------------------------------------------------
(* Python str and list primitives *)

Min(a, b) == IF a < b THEN a ELSE b

Max(a, b) == IF a > b THEN a ELSE b

\* str.strip()
Strip(s) ==
    LET keep == {i \in DOMAIN s : ~IsSpace(s[i])}
    IN  IF keep = {} THEN <<>>
        ELSE LET lo == CHOOSE i \in keep : \A j \in keep : i <= j
                 hi == CHOOSE i \in keep : \A j \in keep : j <= i
             IN  SubSeq(s, lo, hi)

\* seq[lo:hi] with Python's clamping of negative and oversized bounds
PySlice(seq, lo, hi) ==
    LET n  == Len(seq)
        l0 == IF lo < 0 THEN Max(n + lo, 0) ELSE Min(lo, n)
        h0 == IF hi < 0 THEN Max(n + hi, 0) ELSE Min(hi, n)
    IN  SubSeq(seq, l0 + 1, h0)

\* seq[i] raises IndexError outside -len .. len-1
PyIndexOk(seq, i) == -Len(seq) <= i /\ i < Len(seq)

PyGetItem(seq, i) == IF i < 0 THEN seq[Len(seq) + i + 1] ELSE seq[i + 1]

\* str.split(sep) for a one-character separator
RECURSIVE SplitOn(_, _)
SplitOn(s, sep) ==
    LET hits == {i \in DOMAIN s : s[i] = sep}
    IN  IF hits = {} THEN <<s>>
        ELSE LET i == CHOOSE h \in hits : \A g \in hits : h <= g
             IN  <<SubSeq(s, 1, i - 1)>> \o SplitOn(SubSeq(s, i + 1, Len(s)), sep)

\* needle in value, for str
Contains(value, needle) ==
    \E i \in 0..(Len(value) - Len(needle)) :
        SubSeq(value, i + 1, i + Len(needle)) = needle

\* [v.strip() for v in parts if v.strip()]
RECURSIVE StripNonEmpty(_)
StripNonEmpty(parts) ==
    IF parts = <<>> THEN <<>>
    ELSE LET v == Strip(Head(parts))
         IN  (IF v # <<>> THEN <<v>> ELSE <<>>) \o StripNonEmpty(Tail(parts))

-----------------------------------------------------------------------------
(* _col_to_index *)

\* one iteration of the loop of _col_to_index
ColStep(index, char) == index * 26 + (Ord(char) - Ord("A") + 1)

RECURSIVE ColLoop(_, _)
ColLoop(index, chars) ==
    IF chars = <<>> THEN index
    ELSE ColLoop(ColStep(index, Head(chars)), Tail(chars))

\* a variant that does not fold the case of the label
ColToIndexCaseSensitive(col) == ColLoop(0, col) - 1

_col_to_index(col) == ColLoop(0, Upper(col)) - 1

-----------------------------------------------------------------------------
(* Record values and dicts *)

Str(s) == [t |-> "str", v |-> s]

List(l) == [t |-> "list", v |-> l]

\* list(dict.fromkeys(keys)): first occurrences, in order
RECURSIVE FromKeys(_, _)
FromKeys(keys, seen) ==
    IF keys = <<>> THEN <<>>
    ELSE IF Head(keys) \in seen THEN FromKeys(Tail(keys), seen)
    ELSE <<Head(keys)>> \o FromKeys(Tail(keys), seen \cup {Head(keys)})

\* the keys of a dict, in insertion order
Keys(record) == [i \in DOMAIN record |-> record[i].key]

HasKey(record, key) == \E i \in DOMAIN record : record[i].key = key

\* record[key], for a key the dict holds
Get(record, key) == record[CHOOSE i \in DOMAIN record : record[i].key = key].val

\* record[key] = val, for a key the dict holds: the key keeps its place
Put(record, key, val) ==
    [i \in DOMAIN record |->
        IF record[i].key = key THEN [key |-> key, val |-> val] ELSE record[i]]

-----------------------------------------------------------------------------
(* SheetProcessor.__init__ *)

\* the output key of the singer column (U+6B4C U+5531)
SingerKey == "U+6B4C U+5531"

\* the output key of the brand column (U+30D6 U+30E9 U+30F3 U+30C9)
BrandKey == "U+30D6 U+30E9 U+30F3 U+30C9"

\* the crossover marker (U+8D8A U+5883)
CrossMarker == <<"U+8D8A", "U+5883">>

\* v["key"] for v in col_map.values() if v.get("is_array")
RECURSIVE ArrayMappedKeys(_)
ArrayMappedKeys(col_map) ==
    IF col_map = <<>> THEN <<>>
    ELSE (IF Head(col_map).is_array THEN <<Head(col_map).key>> ELSE <<>>)
         \o ArrayMappedKeys(Tail(col_map))

ArrayKeysOf(cfg) == FromKeys(ArrayMappedKeys(cfg.column_mapping), {})

OrderedKeysOf(cfg) ==
    FromKeys([i \in DOMAIN cfg.column_mapping |-> cfg.column_mapping[i].key], {})

-----------------------------------------------------------------------------
(* SINGER_SPLIT_PATTERN, SINGER_PATTERN and _parse_singers *)

\* the index after the blanks that follow position i
AfterBlanks(s, i) ==
    LET stops == {j \in (i + 1)..Len(s) : ~IsSpace(s[j])}
    IN  IF stops = {} THEN Len(s) + 1
        ELSE CHOOSE j \in stops : \A k \in stops : j <= k

\* the lookahead [^[]*\] matches at position j
ClosesBeforeOpen(s, j) ==
    \E k \in j..Len(s) : s[k] = "]" /\ \A m \in j..(k - 1) : s[m] # "["

\* SINGER_SPLIT_PATTERN matches at the comma at position i
SplitMatchAt(s, i) == s[i] = "," /\ ~ClosesBeforeOpen(s, AfterBlanks(s, i))

\* SINGER_SPLIT_PATTERN.split(value)
RECURSIVE SingerSplit(_)
SingerSplit(s) ==
    LET hits == {i \in DOMAIN s : SplitMatchAt(s, i)}
    IN  IF hits = {} THEN <<s>>
        ELSE LET i == CHOOSE h \in hits : \A g \in hits : h <= g
             IN  <<SubSeq(s, 1, i - 1)>>
                 \o SingerSplit(SubSeq(s, AfterBlanks(s, i), Len(s)))

\* the positions where the "[" of SINGER_PATTERN can match: a non-empty
\* prefix before it, a non-empty body after it, "]" as the last character
SingerOpens(s) ==
    IF Len(s) >= 4 /\ s[Len(s)] = "]"
    THEN {k \in 2..(Len(s) - 2) : s[k] = "["}
    ELSE {}

\* SINGER_PATTERN.match(part) succeeds
SingerMatches(s) == SingerOpens(s) # {}

\* match.groups(): the lazy prefix stops at the first possible "["
SingerGroups(s) ==
    LET k == CHOOSE h \in SingerOpens(s) : \A g \in SingerOpens(s) : h <= g
    IN  [unit |-> SubSeq(s, 1, k - 1), members_str |-> SubSeq(s, k + 1, Len(s) - 1)]

RECURSIVE SingerParts(_)
SingerParts(parts) ==
    IF parts = <<>> THEN <<>>
    ELSE LET stripped_part == Strip(Head(parts))
             here == IF stripped_part = <<>> THEN <<>>
                     ELSE IF SingerMatches(stripped_part)
                     THEN LET g == SingerGroups(stripped_part)
                          IN  <<Strip(g.unit)>>
                              \o StripNonEmpty(SplitOn(g.members_str, ","))
                     ELSE <<stripped_part>>
         IN  here \o SingerParts(Tail(parts))

_parse_singers(value) == SingerParts(SingerSplit(value))

-----------------------------------------------------------------------------
(* _process_row *)

\* a variant that starts every key, array keys too, with the empty str
NewRecordAllScalar(akeys, okeys) ==
    [i \in DOMAIN okeys |-> [key |-> okeys[i], val |-> Str(<<>>)]]

\* the record of defaults that _process_row starts from
NewRecord(akeys, okeys) ==
    [i \in DOMAIN okeys |->
        [key |-> okeys[i],
         val |-> IF okeys[i] \in Range(akeys) THEN List(<<>>) ELSE Str(<<>>)]]

\* reading row[col_idx] raises IndexError
CellRaises(row, col_idx) == col_idx < Len(row) /\ ~PyIndexOk(row, col_idx)

\* a variant that does not trim the cell
CellValueUntrimmed(row, col_idx) ==
    IF col_idx < Len(row) /\ PyGetItem(row, col_idx) # <<>>
    THEN PyGetItem(row, col_idx)
    ELSE <<>>

\* row[col_idx].strip() if col_idx < len(row) and row[col_idx] else ""
CellValue(row, col_idx) ==
    IF col_idx < Len(row) /\ PyGetItem(row, col_idx) # <<>>
    THEN Strip(PyGetItem(row, col_idx))
    ELSE <<>>

\* [v.strip() for v in value.split(":") if v.strip() and v.strip() != marker]
BrandValues(value) ==
    SelectSeq(StripNonEmpty(SplitOn(value, ":")), LAMBDA v : v # CrossMarker)

\* a variant that takes the colon split only when the marker is a part
NewValuesMarkerPart(key, value) ==
    IF key = SingerKey THEN _parse_singers(value)
    ELSE IF key = BrandKey
            /\ \E i \in DOMAIN StripNonEmpty(SplitOn(value, ":")) :
                   StripNonEmpty(SplitOn(value, ":"))[i] = CrossMarker
    THEN BrandValues(value)
    ELSE StripNonEmpty(SplitOn(value, ","))

\* the tokens an array column contributes
NewValues(key, value) ==
    IF key = SingerKey THEN _parse_singers(value)
    ELSE IF key = BrandKey /\ Contains(value, CrossMarker) THEN BrandValues(value)
    ELSE StripNonEmpty(SplitOn(value, ","))

\* a variant that puts the new tokens before the tokens already there
MapColumnPrepends(record, mapping, row, ignore_values) ==
    LET col_idx == _col_to_index(mapping.col)
    IN  IF CellRaises(row, col_idx) THEN [exc |-> "IndexError", record |-> record]
        ELSE LET value == CellValue(row, col_idx)
             IN  IF value = <<>> \/ value \in ignore_values
                 THEN [exc |-> "none", record |-> record]
                 ELSE IF mapping.is_array
                 THEN IF Get(record, mapping.key).t = "list"
                      THEN [exc |-> "none",
                            record |-> Put(record, mapping.key,
                                List(NewValues(mapping.key, value)
                                     \o Get(record, mapping.key).v))]
                      ELSE [exc |-> "AttributeError", record |-> record]
                 ELSE [exc |-> "none",
                       record |-> Put(record, mapping.key, Str(value))]

\* a variant where a scalar column without a usable cell resets its key
MapColumnErases(record, mapping, row, ignore_values) ==
    LET col_idx == _col_to_index(mapping.col)
    IN  IF CellRaises(row, col_idx) THEN [exc |-> "IndexError", record |-> record]
        ELSE LET value == CellValue(row, col_idx)
             IN  IF value = <<>> \/ value \in ignore_values
                 THEN IF mapping.is_array
                      THEN [exc |-> "none", record |-> record]
                      ELSE [exc |-> "none",
                            record |-> Put(record, mapping.key, Str(<<>>))]
                 ELSE IF mapping.is_array
                 THEN IF Get(record, mapping.key).t = "list"
                      THEN [exc |-> "none",
                            record |-> Put(record, mapping.key,
                                List(Get(record, mapping.key).v
                                     \o NewValues(mapping.key, value)))]
                      ELSE [exc |-> "AttributeError", record |-> record]
                 ELSE [exc |-> "none",
                       record |-> Put(record, mapping.key, Str(value))]

\* a variant that skips empty values only
MapColumnKeepsIgnored(record, mapping, row, ignore_values) ==
    LET col_idx == _col_to_index(mapping.col)
    IN  IF CellRaises(row, col_idx) THEN [exc |-> "IndexError", record |-> record]
        ELSE LET value == CellValue(row, col_idx)
             IN  IF value = <<>>
                 THEN [exc |-> "none", record |-> record]
                 ELSE IF mapping.is_array
                 THEN IF Get(record, mapping.key).t = "list"
                      THEN [exc |-> "none",
                            record |-> Put(record, mapping.key,
                                List(Get(record, mapping.key).v
                                     \o NewValues(mapping.key, value)))]
                      ELSE [exc |-> "AttributeError", record |-> record]
                 ELSE [exc |-> "none",
                       record |-> Put(record, mapping.key, Str(value))]

\* one iteration of the loop over the column mapping
MapColumn(record, mapping, row, ignore_values) ==
    LET col_idx == _col_to_index(mapping.col)
    IN  IF CellRaises(row, col_idx) THEN [exc |-> "IndexError", record |-> record]
        ELSE LET value == CellValue(row, col_idx)
             IN  IF value = <<>> \/ value \in ignore_values
                 THEN [exc |-> "none", record |-> record]
                 ELSE IF mapping.is_array
                 THEN IF Get(record, mapping.key).t = "list"
                      THEN [exc |-> "none",
                            record |-> Put(record, mapping.key,
                                List(Get(record, mapping.key).v
                                     \o NewValues(mapping.key, value)))]
                      ELSE [exc |-> "AttributeError", record |-> record]
                 ELSE [exc |-> "none",
                       record |-> Put(record, mapping.key, Str(value))]

RECURSIVE MapColumns(_, _, _, _)
MapColumns(record, col_map, row, ignore_values) ==
    IF col_map = <<>> THEN [exc |-> "none", record |-> record]
    ELSE LET r == MapColumn(record, Head(col_map), row, ignore_values)
         IN  IF r.exc # "none" THEN r
             ELSE MapColumns(r.record, Tail(col_map), row, ignore_values)

\* a variant that drops an item only when it repeats its predecessor
RECURSIVE KeepUnlessAdjacent(_, _)
KeepUnlessAdjacent(items, seen) ==
    IF items = <<>> THEN <<>>
    ELSE IF Head(items) \in seen THEN KeepUnlessAdjacent(Tail(items), seen)
    ELSE <<Head(items)>> \o KeepUnlessAdjacent(Tail(items), {Head(items)})

\* [x for x in items if not (x in seen or seen.add(x))]
RECURSIVE KeepFirst(_, _)
KeepFirst(items, seen) ==
    IF items = <<>> THEN <<>>
    ELSE IF Head(items) \in seen THEN KeepFirst(Tail(items), seen)
    ELSE <<Head(items)>> \o KeepFirst(Tail(items), seen \cup {Head(items)})

\* the items a comprehension over a record value iterates: the elements of a
\* list, the one-character strings of a str
Items(val) == IF val.t = "list" THEN val.v ELSE [i \in DOMAIN val.v |-> <<val.v[i]>>]

\* the loop that removes repeated items under the array keys
RECURSIVE Dedup(_, _)
Dedup(record, akeys) ==
    IF akeys = <<>> THEN record
    ELSE LET key == Head(akeys)
             val == Get(record, key)
         IN  Dedup(IF val.v # <<>>
                   THEN Put(record, key, List(KeepFirst(Items(val), {})))
                   ELSE record,
                   Tail(akeys))

\* [exc, record]: the record returned, or the exception raised
_process_row(row, cfg, akeys, okeys) ==
    LET r == MapColumns(NewRecord(akeys, okeys), cfg.column_mapping, row,
                        cfg.ignore_values)
    IN  IF r.exc # "none" THEN r
        ELSE [exc |-> "none", record |-> Dedup(r.record, akeys)]

-----------------------------------------------------------------------------
(* _sort_key and the sort of process *)

DigitValue(c) == PosIn(Digits, c) - 1

RECURSIVE DigitsValue(_, _)
DigitsValue(acc, ds) ==
    IF ds = <<>> THEN acc
    ELSE DigitsValue(acc * 10 + DigitValue(Head(ds)), Tail(ds))

\* int(s) for a str: blanks around, an optional sign, decimal digits
IntParses(s) ==
    LET body == Strip(s)
        ds   == IF body # <<>> /\ Head(body) \in {"+", "-"} THEN Tail(body) ELSE body
    IN  ds # <<>> /\ \A i \in DOMAIN ds : ds[i] \in Range(Digits)

IntValue(s) ==
    LET body == Strip(s)
    IN  IF Head(body) = "-" THEN 0 - DigitsValue(0, Tail(body))
        ELSE IF Head(body) = "+" THEN DigitsValue(0, Tail(body))
        ELSE DigitsValue(0, body)

\* int(item.get("ID", 0)), 0 on ValueError and on TypeError
_sort_key(item) ==
    IF ~HasKey(item, "ID") THEN 0
    ELSE LET val == Get(item, "ID")
         IN  IF val.t = "str" /\ IntParses(val.v) THEN IntValue(val.v) ELSE 0

\* a variant that sorts in ascending order
RECURSIVE InsertAscending(_, _)
InsertAscending(sorted, item) ==
    IF sorted = <<>> THEN <<item>>
    ELSE IF _sort_key(Head(sorted)) <= _sort_key(item)
    THEN <<Head(sorted)>> \o InsertAscending(Tail(sorted), item)
    ELSE <<item>> \o sorted

\* a variant that puts an item in front of the items with an equal key
RECURSIVE InsertBeforeEqual(_, _)
InsertBeforeEqual(sorted, item) ==
    IF sorted = <<>> THEN <<item>>
    ELSE IF _sort_key(Head(sorted)) > _sort_key(item)
    THEN <<Head(sorted)>> \o InsertBeforeEqual(Tail(sorted), item)
    ELSE <<item>> \o sorted

\* where list.sort(reverse=True) puts an item among items already in order:
\* behind every item whose key is not smaller
RECURSIVE InsertDescending(_, _)
InsertDescending(sorted, item) ==
    IF sorted = <<>> THEN <<item>>
    ELSE IF _sort_key(Head(sorted)) >= _sort_key(item)
    THEN <<Head(sorted)>> \o InsertDescending(Tail(sorted), item)
    ELSE <<item>> \o sorted

\* processed_list.sort(key=self._sort_key, reverse=True)
RECURSIVE SortDescending(_)
SortDescending(list) ==
    IF list = <<>> THEN <<>>
    ELSE InsertDescending(SortDescending(SubSeq(list, 1, Len(list) - 1)),
                          list[Len(list)])

-----------------------------------------------------------------------------
(* The configurations and grids the model draws its inputs from *)

Mapping(col, key, is_array) == [col |-> col, key |-> key, is_array |-> is_array]

\* ID, then two columns feeding one array key; "-" is an ignore value
CfgPlain ==
    [data_start_row |-> 1,
     end_check_columns |-> << <<"A">>, <<"B">> >>,
     column_mapping |-> << Mapping(<<"A">>, "ID", FALSE),
                           Mapping(<<"B">>, "tags", TRUE),
                           Mapping(<<"C">>, "tags", TRUE) >>,
     ignore_values |-> { <<"-">> }]

\* one header row; two columns feeding one scalar key; ID mapped last
CfgHeader ==
    [data_start_row |-> 2,
     end_check_columns |-> << <<"B">>, <<"C">> >>,
     column_mapping |-> << Mapping(<<"B">>, "name", FALSE),
                           Mapping(<<"C">>, "name", FALSE),
                           Mapping(<<"A">>, "ID", FALSE) >>,
     ignore_values |-> { <<"-">> }]

\* no ID key; a lower-case label; a column beyond every row; an ignore value
\* in the check range
CfgNoId ==
    [data_start_row |-> 1,
     end_check_columns |-> << <<"a">>, <<"a">> >>,
     column_mapping |-> << Mapping(<<"b">>, "tags", TRUE),
                           Mapping(<<"A">>, "name", FALSE),
                           Mapping(<<"A", "A">>, "far", FALSE) >>,
     ignore_values |-> { <<"9">> }]

\* ID mapped as an array; the singer and the brand column
CfgSpecial ==
    [data_start_row |-> 1,
     end_check_columns |-> << <<"A">>, <<"C">> >>,
     column_mapping |-> << Mapping(<<"A">>, "ID", TRUE),
                           Mapping(<<"B">>, SingerKey, TRUE),
                           Mapping(<<"C">>, BrandKey, TRUE) >>,
     ignore_values |-> {}]

\* one key mapped by a scalar column and then by an array column
CfgScalarThenArray ==
    [data_start_row |-> 1,
     end_check_columns |-> << <<"A">>, <<"B">> >>,
     column_mapping |-> << Mapping(<<"A">>, "ID", FALSE),
                           Mapping(<<"B">>, "name", FALSE),
                           Mapping(<<"C">>, "name", TRUE) >>,
     ignore_values |-> {}]

\* one key mapped by an array column and then by a scalar column
CfgArrayThenScalar ==
    [data_start_row |-> 1,
     end_check_columns |-> << <<"A">>, <<"B">> >>,
     column_mapping |-> << Mapping(<<"A">>, "ID", FALSE),
                           Mapping(<<"B">>, "name", TRUE),
                           Mapping(<<"C">>, "name", FALSE) >>,
     ignore_values |-> {}]

\* column labels that are no labels: the empty label and "?"
CfgBadLabels ==
    [data_start_row |-> 1,
     end_check_columns |-> << <<"A">>, <<"A">> >>,
     column_mapping |-> << Mapping(<<"A">>, "ID", FALSE),
                           Mapping(<<>>, "name", FALSE),
                           Mapping(<<"?">>, "tags", TRUE) >>,
     ignore_values |-> {}]

\* an end-check label that is no label
CfgBadCheck ==
    [data_start_row |-> 1,
     end_check_columns |-> << <<"A">>, <<"1">> >>,
     column_mapping |-> << Mapping(<<"A">>, "ID", FALSE),
                           Mapping(<<"B">>, "name", FALSE) >>,
     ignore_values |-> {}]

Configs ==
    {CfgPlain, CfgHeader, CfgNoId, CfgSpecial, CfgScalarThenArray,
     CfgArrayThenScalar, CfgBadLabels, CfgBadCheck}

\* the rows a grid is made of
RowSet ==
    { <<>>,
      << <<" ">>, <<>>, <<"c", ",", "c">> >>,
      << <<"9">>, <<"a", ",", "b">> >>,
      << <<"1", "0">>, <<"G", "[", "b", ",", " ", "a", "]", ",", "b">>,
         <<"b", ",", "c">> >>,
      << <<" ", "9">>, <<" ">>, <<"-">> >>,
      << <<"x">>, <<"a", "[", "b", ",", " ", "a", "[", "b">>,
         <<"p", ":", "U+8D8A", "U+5883", ":", "p">> >> }

RECURSIVE SeqsUpTo(_, _)
SeqsUpTo(S, n) ==
    IF n = 0 THEN {<<>>}
    ELSE LET shorter == SeqsUpTo(S, n - 1)
         IN  shorter \cup {Append(q, x) : q \in {r \in shorter : Len(r) = n - 1}, x \in S}

Grids == SeqsUpTo(RowSet, MaxRows)

RepeatGrids == SeqsUpTo(RowSet, MaxRepeatRows)

\* the labels _col_to_index is called with directly
LabelChars == {"A", "B", "Z", "a", "z", "1", " ", "?"}

Labels == SeqsUpTo(LabelChars, MaxLabelLen)

-----------------------------------------------------------------------------
(* process *)

\* a variant that looks at every cell of the row
RowIsEndWholeRow(row, start_idx, end_idx) ==
    ~\E i \in DOMAIN row : Strip(row[i]) # <<>>

\* not any(cell.strip() for cell in row[start_col_idx : end_col_idx + 1])
RowIsEnd(row, start_idx, end_idx) ==
    LET cells == PySlice(row, start_idx, end_idx + 1)
    IN  ~\E i \in DOMAIN cells : Strip(cells[i]) # <<>>

\* the outcome of a finished call, as its caller sees it
Outcome(e, result) == [exc |-> e, result |-> result]

\* the for loop of process over data_rows, as a function of the rows
RECURSIVE ProcessRows(_, _, _, _, _, _)
ProcessRows(rows, cfg, akeys, okeys, start_idx, end_idx) ==
    IF rows = <<>> \/ RowIsEnd(Head(rows), start_idx, end_idx)
    THEN Outcome("none", <<>>)
    ELSE LET r == _process_row(Head(rows), cfg, akeys, okeys)
         IN  IF r.exc # "none" THEN Outcome(r.exc, <<>>)
             ELSE LET rest == ProcessRows(Tail(rows), cfg, akeys, okeys,
                                          start_idx, end_idx)
                  IN  IF rest.exc # "none" THEN rest
                      ELSE Outcome("none", <<r.record>> \o rest.result)

\* SheetProcessor(cfg).process(grid), as a function of its arguments
process(cfg, grid) ==
    LET scanned == ProcessRows(PySlice(grid, cfg.data_start_row - 1, Len(grid)),
                               cfg, ArrayKeysOf(cfg), OrderedKeysOf(cfg),
                               _col_to_index(cfg.end_check_columns[1]),
                               _col_to_index(cfg.end_check_columns[2]))
    IN  IF scanned.exc # "none" THEN scanned
        ELSE Outcome("none", SortDescending(scanned.result))

\* a variant that slices the grid from data_start_row, 0-based
EnterProcessFromNextRow ==
    /\ calls' = calls + 1
    /\ start_col_idx' = _col_to_index(config.end_check_columns[1])
    /\ end_col_idx' = _col_to_index(config.end_check_columns[2])
    /\ data_rows' = PySlice(sheet_data, config.data_start_row, Len(sheet_data))
    /\ processed_list' = <<>>
    /\ next_row' = 1
    /\ emitted' = <<>>
    /\ exc' = "none"
    /\ pc' = "loop"
    /\ UNCHANGED <<config, sheet_data, array_keys, ordered_keys, outcomes,
                   label, col_result, tokVars, mainVars, prVars, scriptVars>>

\* a list object, named by the place and the time of its creation
ListObject(site, call, row, key) ==
    [site |-> site, call |-> call, row |-> row, key |-> key]

\* a variant where the empty default is one list made once for all rows
ListObjectsSharedDefault(call, row, record, akeys) ==
    [i \in DOMAIN akeys |->
        LET val == Get(record, akeys[i])
        IN  IF val.t = "str" THEN ListObject("none", 0, 0, akeys[i])
            ELSE IF val.v # <<>>
            THEN ListObject("comprehension", call, row, akeys[i])
            ELSE ListObject("literal", 0, 0, akeys[i])]

\* the list objects the record of one _process_row call holds under the
\* array keys: the list the comprehension of line 260 builds when the value
\* is truthy, the [] of line 226 otherwise; "none" for a str value
ListObjects(call, row, record, akeys) ==
    [i \in DOMAIN akeys |->
        LET val == Get(record, akeys[i])
        IN  IF val.t = "str" THEN ListObject("none", 0, 0, akeys[i])
            ELSE IF val.v # <<>>
            THEN ListObject("comprehension", call, row, akeys[i])
            ELSE ListObject("literal", call, row, akeys[i])]

\* the list objects of the argument: the grid (row 0) and its rows
GridObjects(grid) ==
    {ListObject("argument", 0, i, "row") : i \in 0..Len(grid)}

\* a variant that keeps the list of the call before
EnterProcessKeepsList ==
    /\ calls' = calls + 1
    /\ start_col_idx' = _col_to_index(config.end_check_columns[1])
    /\ end_col_idx' = _col_to_index(config.end_check_columns[2])
    /\ data_rows' = PySlice(sheet_data, config.data_start_row - 1, Len(sheet_data))
    /\ next_row' = 1
    /\ emitted' = <<>>
    /\ exc' = "none"
    /\ pc' = "loop"
    /\ UNCHANGED <<config, sheet_data, array_keys, ordered_keys, outcomes,
                   processed_list, label, col_result,
                   tokVars, mainVars, prVars, scriptVars>>

\* process, up to the for loop
EnterProcess ==
    /\ calls' = calls + 1
    /\ start_col_idx' = _col_to_index(config.end_check_columns[1])
    /\ end_col_idx' = _col_to_index(config.end_check_columns[2])
    /\ data_rows' = PySlice(sheet_data, config.data_start_row - 1, Len(sheet_data))
    /\ processed_list' = <<>>
    /\ next_row' = 1
    /\ emitted' = <<>>
    /\ exc' = "none"
    /\ pc' = "loop"
    /\ UNCHANGED <<config, sheet_data, array_keys, ordered_keys, outcomes,
                   label, col_result, tokVars, mainVars, prVars, scriptVars>>

\* the first call of process on a processor
Call ==
    /\ pc = "idle"
    /\ calls < MaxCalls
    /\ EnterProcess

\* a further call of process on the same processor
CallAgain ==
    /\ pc \in {"done", "raised"}
    /\ calls < MaxCalls
    /\ EnterProcess

\* SheetProcessor(config): a new processor for the same configuration
Construct ==
    /\ pc \in {"done", "raised"}
    /\ calls < MaxCalls
    /\ array_keys' = ArrayKeysOf(config)
    /\ ordered_keys' = OrderedKeysOf(config)
    /\ pc' = "idle"
    /\ UNCHANGED <<config, sheet_data, start_col_idx, end_col_idx, data_rows,
                   next_row, processed_list, exc, emitted, calls, outcomes,
                   label, col_result, tokVars, mainVars, prVars, scriptVars>>

\* the sort and the return that follow the for loop
SortAndReturn ==
    /\ processed_list' = SortDescending(processed_list)
    /\ outcomes' = Append(outcomes, Outcome("none", processed_list'))
    /\ pc' = "done"
    /\ UNCHANGED <<config, sheet_data, array_keys, ordered_keys, start_col_idx,
                   end_col_idx, data_rows, next_row, exc, emitted, calls,
                   label, col_result, tokVars, mainVars, prVars, scriptVars>>

\* the for loop has no row left
Exhausted ==
    /\ pc = "loop"
    /\ next_row > Len(data_rows)
    /\ SortAndReturn

\* a variant that skips an end row and goes on with the next row
EndOfDataSkips ==
    /\ pc = "loop"
    /\ next_row <= Len(data_rows)
    /\ RowIsEnd(data_rows[next_row], start_col_idx, end_col_idx)
    /\ next_row' = next_row + 1
    /\ UNCHANGED <<config, sheet_data, array_keys, ordered_keys, pc,
                   start_col_idx, end_col_idx, data_rows, processed_list, exc,
                   emitted, calls, outcomes, label, col_result,
                   tokVars, mainVars, prVars, scriptVars>>

\* the row is empty in the check range: break
EndOfData ==
    /\ pc = "loop"
    /\ next_row <= Len(data_rows)
    /\ RowIsEnd(data_rows[next_row], start_col_idx, end_col_idx)
    /\ SortAndReturn

\* a variant that leaves out a record holding nothing but defaults
ProcessRowSkipsDefaults ==
    /\ pc = "loop"
    /\ next_row <= Len(data_rows)
    /\ ~RowIsEnd(data_rows[next_row], start_col_idx, end_col_idx)
    /\ LET r == _process_row(data_rows[next_row], config, array_keys, ordered_keys)
           keep == r.record # NewRecord(array_keys, ordered_keys)
       IN  /\ r.exc = "none"
           /\ processed_list' = IF keep THEN Append(processed_list, r.record)
                                ELSE processed_list
           /\ emitted' = IF keep
                         THEN Append(emitted,
                                  [row |-> Len(sheet_data) - Len(data_rows) + next_row,
                                   record |-> r.record,
                                   lists |-> ListObjects(calls, next_row, r.record,
                                                         array_keys)])
                         ELSE emitted
    /\ next_row' = next_row + 1
    /\ UNCHANGED <<config, sheet_data, array_keys, ordered_keys, pc,
                   start_col_idx, end_col_idx, data_rows, exc, calls, outcomes,
                   label, col_result, tokVars, mainVars, prVars, scriptVars>>

\* the row has data in the check range: its record is appended
ProcessRow ==
    /\ pc = "loop"
    /\ next_row <= Len(data_rows)
    /\ ~RowIsEnd(data_rows[next_row], start_col_idx, end_col_idx)
    /\ LET r == _process_row(data_rows[next_row], config, array_keys, ordered_keys)
       IN  /\ r.exc = "none"
           /\ processed_list' = Append(processed_list, r.record)
           /\ emitted' = Append(emitted,
                  [row |-> Len(sheet_data) - Len(data_rows) + next_row,
                   record |-> r.record,
                   lists |-> ListObjects(calls, next_row, r.record, array_keys)])
    /\ next_row' = next_row + 1
    /\ UNCHANGED <<config, sheet_data, array_keys, ordered_keys, pc,
                   start_col_idx, end_col_idx, data_rows, exc, calls, outcomes,
                   label, col_result, tokVars, mainVars, prVars, scriptVars>>

\* _process_row raises: the exception leaves process
RowRaises ==
    /\ pc = "loop"
    /\ next_row <= Len(data_rows)
    /\ ~RowIsEnd(data_rows[next_row], start_col_idx, end_col_idx)
    /\ LET r == _process_row(data_rows[next_row], config, array_keys, ordered_keys)
       IN  /\ r.exc # "none"
           /\ exc' = r.exc
           /\ outcomes' = Append(outcomes, Outcome(r.exc, <<>>))
    /\ pc' = "raised"
    /\ UNCHANGED <<config, sheet_data, array_keys, ordered_keys, start_col_idx,
                   end_col_idx, data_rows, next_row, processed_list, emitted,
                   calls, label, col_result, tokVars, mainVars, prVars, scriptVars>>

\* the values the process variables hold before the first call
Idle ==
    /\ array_keys = ArrayKeysOf(config)
    /\ ordered_keys = OrderedKeysOf(config)
    /\ pc = "idle"
    /\ start_col_idx = 0
    /\ end_col_idx = 0
    /\ data_rows = <<>>
    /\ next_row = 1
    /\ processed_list = <<>>
    /\ exc = "none"
    /\ emitted = <<>>
    /\ calls = 0
    /\ outcomes = <<>>

Pending == [status |-> "pending", value |-> 0]

\* no splitting function has been called
TokPending == [status |-> "pending", by |-> "none", tokens |-> <<>>]

TokIdle ==
    /\ cell_value = <<>>
    /\ tok_result = TokPending

\* monitor_pr has not been called
MonIdle ==
    /\ mon_pc = "idle"
    /\ check_count = 0
    /\ pr_info = "None"
    /\ mon_report = "none"

\* parse_error_from_comments has found nothing
NoErrors == [ruff_lint |-> <<>>, ruff_format |-> <<>>, yaml_lint |-> <<>>]

\* fix_all_errors has not been called
FixIdle ==
    /\ fpc = "idle"
    /\ fix_pr = 0
    /\ errors = NoErrors
    /\ errors_fixed = <<>>
    /\ fixed_any = FALSE
    /\ elapsed = 0
    /\ fix_returned = "none"
    /\ verify_returned = "none"
    /\ steps = <<>>
    /\ commit_status = "none"
    /\ polls = 0
    /\ last_poll = "none"

\* main of cleanup_drive_storage.py has not been started
CleanIdle ==
    /\ cpc = "idle"
    /\ listing = <<>>
    /\ present = {}
    /\ temp_files = <<>>
    /\ old_files = <<>>
    /\ next_file = 1
    /\ total_deleted = 0
    /\ total_errors = 0
    /\ requests = <<>>
    /\ failures = <<>>

\* no maintenance script has been started
ScriptsIdle == MonIdle /\ FixIdle /\ CleanIdle

\* main of sheet_to_json.py has not been started
MainIdle ==
    /\ mpc = "idle"
    /\ copied_file_id = "None"
    /\ leaving = "none"
    /\ handled = "none"
    /\ written = FALSE
    /\ drive = {}
    /\ delete_requests = {}
    /\ delete_failed = {}

\* main of scripts/auto_pr.py has not been started
PrIdle ==
    /\ apc = "idle"
    /\ no_monitor = FALSE
    /\ pr_title = "None"
    /\ pr_body = "None"
    /\ pr_number = 0
    /\ monitoring = FALSE
    /\ monitor_thread = "None"
    /\ subprocess = "none"
    /\ exit_status = "running"
    /\ monitor_started = FALSE

Returned(n) == [status |-> "returned", value |-> n]

\* one call of process on a grid
Init ==
    /\ config \in Configs
    /\ sheet_data \in Grids
    /\ Idle
    /\ label = <<>>
    /\ col_result = Pending
    /\ TokIdle
    /\ MainIdle
    /\ PrIdle
    /\ ScriptsIdle

Next ==
    \/ Call
    \/ ProcessRow
    \/ RowRaises
    \/ EndOfData
    \/ Exhausted

Spec == Init /\ [][Next]_vars

\* MaxCalls calls of process on one grid, on the same or on a new processor
InitRepeat ==
    /\ config \in Configs
    /\ sheet_data \in RepeatGrids
    /\ Idle
    /\ label = <<>>
    /\ col_result = Pending
    /\ TokIdle
    /\ MainIdle
    /\ PrIdle
    /\ ScriptsIdle

NextRepeat ==
    \/ Call
    \/ CallAgain
    \/ Construct
    \/ ProcessRow
    \/ RowRaises
    \/ EndOfData
    \/ Exhausted

SpecRepeat == InitRepeat /\ [][NextRepeat]_vars

-----------------------------------------------------------------------------
(* _col_to_index called on its own *)

ConvertLabel ==
    /\ col_result = Pending
    /\ col_result' = Returned(_col_to_index(label))
    /\ UNCHANGED <<config, sheet_data, array_keys, ordered_keys, pc,
                   start_col_idx, end_col_idx, data_rows, next_row,
                   processed_list, exc, emitted, calls, outcomes, label,
                   tokVars, mainVars, prVars, scriptVars>>

InitCol ==
    /\ label \in Labels
    /\ col_result = Pending
    /\ config = CfgPlain
    /\ sheet_data = <<>>
    /\ Idle
    /\ TokIdle
    /\ MainIdle
    /\ PrIdle
    /\ ScriptsIdle

NextCol == ConvertLabel

SpecCol == InitCol /\ [][NextCol]_vars

-----------------------------------------------------------------------------
(* The splitting functions called on their own *)

TokenChars == {"A", ",", " ", "[", "]"}

\* the cell values of the scenarios of the specification
ScenarioValues ==
    { <<"A", "[", "1", ",", "2", "]", ",", " ", "B">>,
      <<"A", "[", "b", "]", "c", "[", "d", "]">>,
      <<"G", "[", "M", ",", " ", "N", "]">>,
      <<"A", "[", "x", ",", " ", "y">>,
      <<"A", ",", " ", "B", "]">> }

\* the characters of the cells of the brand column
BrandChars == {"A", ":", ",", " ", "U+8D8A", "U+5883"}

CellValues ==
    SeqsUpTo(TokenChars, MaxValueLen) \cup ScenarioValues
    \cup SeqsUpTo(BrandChars, MaxBrandLen)

TokReturned(by, tokens) == [status |-> "returned", by |-> by, tokens |-> tokens]

\* what an array column mapped to key appends for a cell: lines 230-252
CellTokens(key, cell) ==
    IF Strip(cell) = <<>> THEN <<>> ELSE NewValues(key, Strip(cell))

\* an array column that is neither the singer nor the brand column
SplitDefault ==
    /\ tok_result = TokPending
    /\ tok_result' = TokReturned("default", CellTokens("tags", cell_value))
    /\ UNCHANGED <<procVars, colVars, cell_value, mainVars, prVars, scriptVars>>

\* SINGER_SPLIT_PATTERN.split(value)
SplitSingers ==
    /\ tok_result = TokPending
    /\ tok_result' = TokReturned("split", SingerSplit(cell_value))
    /\ UNCHANGED <<procVars, colVars, cell_value, mainVars, prVars, scriptVars>>

\* self._parse_singers(value)
ParseSingers ==
    /\ tok_result = TokPending
    /\ tok_result' = TokReturned("singers", _parse_singers(cell_value))
    /\ UNCHANGED <<procVars, colVars, cell_value, mainVars, prVars, scriptVars>>

\* the brand column
SplitBrand ==
    /\ tok_result = TokPending
    /\ tok_result' = TokReturned("brand", CellTokens(BrandKey, cell_value))
    /\ UNCHANGED <<procVars, colVars, cell_value, mainVars, prVars, scriptVars>>

InitTok ==
    /\ cell_value \in CellValues
    /\ tok_result = TokPending
    /\ config = CfgSpecial
    /\ sheet_data = <<>>
    /\ Idle
    /\ label = <<>>
    /\ col_result = Pending
    /\ MainIdle
    /\ PrIdle
    /\ ScriptsIdle

NextTok ==
    \/ SplitDefault
    \/ SplitSingers
    \/ ParseSingers
    \/ SplitBrand

SpecTok == InitTok /\ [][NextTok]_vars

-----------------------------------------------------------------------------
(* main of sheet_to_json.py: SheetCopier, fetch_sheet_data,               *)
(* process_and_save_data.  config is the loaded configuration, sheet_data *)
(* the values of the target sheet.                                         *)

\* the ids the drive may give to a copy
FileIds == {"f1", "f2"}

\* a copy whose id the response did not carry
NoId == "id not returned"

\* an exception leaves the body of the with block: __exit__ runs next
Raised(e) ==
    /\ leaving' = e
    /\ mpc' = "exit"

\* load_and_validate_config: the configuration or None
LoadConfig ==
    /\ mpc = "idle"
    /\ \E loaded \in BOOLEAN : mpc' = IF loaded THEN "configured" ELSE "returned"
    /\ UNCHANGED <<procVars, colVars, tokVars, prVars, copied_file_id, leaving,
                   handled, written, drive, delete_requests, delete_failed, scriptVars>>

\* initialize_api_services: the services or None
InitializeApi ==
    /\ mpc = "configured"
    /\ \E ready \in BOOLEAN : mpc' = IF ready THEN "ready" ELSE "returned"
    /\ UNCHANGED <<procVars, colVars, tokVars, prVars, copied_file_id, leaving,
                   handled, written, drive, delete_requests, delete_failed, scriptVars>>

\* __enter__: the copy request answers with the id of the new file
CopySucceeds ==
    /\ mpc = "ready"
    /\ \E f \in FileIds :
           /\ copied_file_id' = f
           /\ drive' = drive \cup {f}
    /\ mpc' = "in_with"
    /\ UNCHANGED <<procVars, colVars, tokVars, prVars, leaving, handled,
                   written, delete_requests, delete_failed, scriptVars>>

\* __enter__: the copy request answers without an id: ValueError, and the
\* with block is never entered
CopyWithoutId ==
    /\ mpc = "ready"
    /\ drive' = drive \cup {NoId}
    /\ leaving' = "ValueError"
    /\ mpc' = "except"
    /\ UNCHANGED <<procVars, colVars, tokVars, prVars, copied_file_id, handled,
                   written, delete_requests, delete_failed, scriptVars>>

\* __enter__: the copy request raises; HttpError is printed and raised again
CopyRaises ==
    /\ mpc = "ready"
    /\ \E e \in {"HttpError", "OSError"} : leaving' = e
    /\ mpc' = "except"
    /\ UNCHANGED <<procVars, colVars, tokVars, prVars, copied_file_id, handled,
                   written, drive, delete_requests, delete_failed, scriptVars>>

\* a variant where the return leaves main without passing __exit__
EarlyReturnSkipsExit ==
    /\ leaving' = "return"
    /\ mpc' = "finally"

\* if not sheet_data: return
EarlyReturn ==
    /\ leaving' = "return"
    /\ mpc' = "exit"

\* fetch_sheet_data: the request fails with HttpError, None is returned
FetchFails ==
    /\ mpc = "in_with"
    /\ EarlyReturn
    /\ UNCHANGED <<procVars, colVars, tokVars, prVars, copied_file_id, handled,
                   written, drive, delete_requests, delete_failed, scriptVars>>

\* fetch_sheet_data: the request raises something else than HttpError, a
\* transport error
FetchRaises ==
    /\ mpc = "in_with"
    /\ Raised("OSError")
    /\ UNCHANGED <<procVars, colVars, tokVars, prVars, copied_file_id, handled,
                   written, drive, delete_requests, delete_failed, scriptVars>>

\* fetch_sheet_data: no values, or fewer rows than data_start_row: None
FetchTooFewRows ==
    /\ mpc = "in_with"
    /\ sheet_data = <<>> \/ Len(sheet_data) < config.data_start_row
    /\ EarlyReturn
    /\ UNCHANGED <<procVars, colVars, tokVars, prVars, copied_file_id, handled,
                   written, drive, delete_requests, delete_failed, scriptVars>>

\* fetch_sheet_data returns the values of the sheet
FetchReturnsData ==
    /\ mpc = "in_with"
    /\ ~(sheet_data = <<>> \/ Len(sheet_data) < config.data_start_row)
    /\ mpc' = "process"
    /\ UNCHANGED <<procVars, colVars, tokVars, prVars, copied_file_id, leaving,
                   handled, written, drive, delete_requests, delete_failed, scriptVars>>

\* process_and_save_data: SheetProcessor(config).process(sheet_data) is
\* called; the steps of process follow
CallProcess ==
    /\ mpc = "process"
    /\ pc = "idle"
    /\ EnterProcess

\* process_and_save_data: process has raised
ProcessFails ==
    /\ mpc = "process"
    /\ pc = "raised"
    /\ Raised(exc)
    /\ UNCHANGED <<procVars, colVars, tokVars, prVars, copied_file_id, handled,
                   written, drive, delete_requests, delete_failed, scriptVars>>

\* process_and_save_data: process has returned; the JSON file is written,
\* or write_text raises
SaveJson ==
    /\ mpc = "process"
    /\ pc = "done"
    /\ \E saved \in BOOLEAN :
           /\ written' = saved
           /\ leaving' = IF saved THEN "none" ELSE "OSError"
    /\ mpc' = "exit"
    /\ UNCHANGED <<procVars, colVars, tokVars, prVars, copied_file_id, handled,
                   drive, delete_requests, delete_failed, scriptVars>>

\* where main goes on after __exit__
AfterExit(how) == IF how \in {"none", "return"} THEN "finally" ELSE "except"

\* __exit__: the delete request succeeds
DeleteSucceeds ==
    /\ mpc = "exit"
    /\ copied_file_id # "None"
    /\ delete_requests' = delete_requests \cup {copied_file_id}
    /\ drive' = drive \ {copied_file_id}
    /\ mpc' = AfterExit(leaving)
    /\ UNCHANGED <<procVars, colVars, tokVars, prVars, copied_file_id, leaving,
                   handled, written, delete_failed, scriptVars>>

\* __exit__: the delete request fails with HttpError, which is printed
DeleteFails ==
    /\ mpc = "exit"
    /\ copied_file_id # "None"
    /\ delete_requests' = delete_requests \cup {copied_file_id}
    /\ delete_failed' = delete_failed \cup {copied_file_id}
    /\ mpc' = AfterExit(leaving)
    /\ UNCHANGED <<procVars, colVars, tokVars, prVars, copied_file_id, leaving,
                   handled, written, drive, scriptVars>>

\* __exit__: the delete request raises something else, which leaves __exit__
DeleteRaises ==
    /\ mpc = "exit"
    /\ copied_file_id # "None"
    /\ delete_requests' = delete_requests \cup {copied_file_id}
    /\ delete_failed' = delete_failed \cup {copied_file_id}
    /\ leaving' = "OSError"
    /\ mpc' = "except"
    /\ UNCHANGED <<procVars, colVars, tokVars, prVars, copied_file_id, handled,
                   written, drive, scriptVars>>

\* except (OSError, HttpError, ValueError) / except Exception
Except ==
    /\ mpc = "except"
    /\ handled' = IF leaving \in {"OSError", "HttpError", "ValueError"}
                  THEN "OSError, HttpError, ValueError" ELSE "Exception"
    /\ mpc' = "finally"
    /\ UNCHANGED <<procVars, colVars, tokVars, prVars, copied_file_id, leaving,
                   written, drive, delete_requests, delete_failed, scriptVars>>

\* finally, and the return of main
Finally ==
    /\ mpc = "finally"
    /\ mpc' = "returned"
    /\ UNCHANGED <<procVars, colVars, tokVars, prVars, copied_file_id, leaving,
                   handled, written, drive, delete_requests, delete_failed, scriptVars>>

InitMain ==
    /\ config \in Configs
    /\ sheet_data \in RepeatGrids
    /\ Idle
    /\ label = <<>>
    /\ col_result = Pending
    /\ TokIdle
    /\ MainIdle
    /\ PrIdle
    /\ ScriptsIdle

NextMain ==
    \/ LoadConfig
    \/ InitializeApi
    \/ CopySucceeds
    \/ CopyWithoutId
    \/ CopyRaises
    \/ FetchFails
    \/ FetchRaises
    \/ FetchTooFewRows
    \/ FetchReturnsData
    \/ CallProcess
    \/ ProcessRow
    \/ RowRaises
    \/ EndOfData
    \/ Exhausted
    \/ ProcessFails
    \/ SaveJson
    \/ DeleteSucceeds
    \/ DeleteFails
    \/ DeleteRaises
    \/ Except
    \/ Finally

SpecMain == InitMain /\ [][NextMain]_vars

-----------------------------------------------------------------------------
(* scripts/auto_pr.py: main, AutoPR.run, start_monitoring and the monitor *)
(* thread _run_monitor                                                     *)

\* the numbers a new pull request may get
PrNumbers == {1, 2}

\* sys.exit(1)
ExitOne ==
    /\ apc' = "exited"
    /\ exit_status' = "exit 1"

\* parser.parse_args(): the options of the command line
ParseArgs ==
    /\ apc = "idle"
    /\ no_monitor' \in BOOLEAN
    /\ pr_title' \in {"None", "given"}
    /\ pr_body' \in {"None", "given"}
    /\ apc' = "parsed"
    /\ UNCHANGED <<procVars, colVars, tokVars, mainVars, pr_number, monitoring,
                   monitor_thread, subprocess, exit_status, monitor_started, scriptVars>>

\* gh --version runs, or sys.exit(1); then AutoPR() and the SIGINT handler
CheckGh ==
    /\ apc = "parsed"
    /\ \E installed \in BOOLEAN :
           IF installed THEN apc' = "status" /\ UNCHANGED exit_status
           ELSE ExitOne
    /\ UNCHANGED <<procVars, colVars, tokVars, mainVars, no_monitor, pr_title, pr_body,
                   pr_number, monitoring, monitor_thread, subprocess,
                   monitor_started, scriptVars>>

\* run: check_git_status, False ends the script with status 1
CheckGitStatus ==
    /\ apc = "status"
    /\ \E clean \in BOOLEAN :
           IF clean THEN apc' = "push" /\ UNCHANGED exit_status
           ELSE ExitOne
    /\ UNCHANGED <<procVars, colVars, tokVars, mainVars, no_monitor, pr_title, pr_body,
                   pr_number, monitoring, monitor_thread, subprocess,
                   monitor_started, scriptVars>>

\* run: push_current_branch, then the default title and body where missing
PushAndPrepare ==
    /\ apc = "push"
    /\ \E pushed \in BOOLEAN :
           IF pushed
           THEN /\ apc' = "confirm"
                /\ pr_title' = IF pr_title = "None" THEN "default" ELSE pr_title
                /\ pr_body' = IF pr_body = "None" THEN "default" ELSE pr_body
                /\ UNCHANGED exit_status
           ELSE ExitOne /\ UNCHANGED <<pr_title, pr_body, scriptVars>>
    /\ UNCHANGED <<procVars, colVars, tokVars, mainVars, no_monitor, pr_number,
                   monitoring, monitor_thread, subprocess, monitor_started, scriptVars>>

\* run: the answer to the confirmation prompt
Confirm ==
    /\ apc = "confirm"
    /\ \E yes \in BOOLEAN :
           IF yes THEN apc' = "create" /\ UNCHANGED exit_status
           ELSE ExitOne
    /\ UNCHANGED <<procVars, colVars, tokVars, mainVars, no_monitor, pr_title, pr_body,
                   pr_number, monitoring, monitor_thread, subprocess,
                   monitor_started, scriptVars>>

\* run: create_pr returns the number of the pull request, or None
CreatePr ==
    /\ apc = "create"
    /\ \E n \in PrNumbers \cup {0} :
           /\ pr_number' = n
           /\ IF n # 0 THEN apc' = "created" /\ UNCHANGED exit_status
              ELSE ExitOne
    /\ UNCHANGED <<procVars, colVars, tokVars, mainVars, no_monitor, pr_title, pr_body,
                   monitoring, monitor_thread, subprocess, monitor_started, scriptVars>>

\* run calls start_monitoring: self.monitoring = True
StartMonitoring ==
    /\ apc = "created"
    /\ monitoring' = TRUE
    /\ monitor_started' = TRUE
    /\ apc' = "starting"
    /\ UNCHANGED <<procVars, colVars, tokVars, mainVars, no_monitor, pr_title, pr_body,
                   pr_number, monitor_thread, subprocess, exit_status, scriptVars>>

\* start_monitoring: the thread is made and monitor_thread.start() called
StartThread ==
    /\ apc = "starting"
    /\ monitor_thread' = "started"
    /\ apc' = "wait"
    /\ UNCHANGED <<procVars, colVars, tokVars, mainVars, no_monitor, pr_title, pr_body,
                   pr_number, monitoring, subprocess, exit_status, monitor_started,
                   scriptVars>>

\* monitor_thread.is_alive(): true until the thread has ended, also after
\* its finally block has cleared the flag
IsAlive == monitor_thread \in {"started", "waiting", "finally", "ending"}

\* start_monitoring: while self.monitoring and ...: the flag is read first
WaitCheck ==
    /\ apc = "wait"
    /\ apc' = IF monitoring THEN "alive" ELSE "monitored"
    /\ UNCHANGED <<procVars, colVars, tokVars, mainVars, no_monitor, pr_title, pr_body,
                   pr_number, monitoring, monitor_thread, subprocess,
                   exit_status, monitor_started, scriptVars>>

\* start_monitoring: ... and self.monitor_thread.is_alive(), read second
WaitCheckAlive ==
    /\ apc = "alive"
    /\ apc' = IF IsAlive THEN "sleep" ELSE "monitored"
    /\ UNCHANGED <<procVars, colVars, tokVars, mainVars, no_monitor, pr_title, pr_body,
                   pr_number, monitoring, monitor_thread, subprocess,
                   exit_status, monitor_started, scriptVars>>

\* start_monitoring: time.sleep(1)
Sleep ==
    /\ apc = "sleep"
    /\ apc' = "wait"
    /\ UNCHANGED <<procVars, colVars, tokVars, mainVars, no_monitor, pr_title, pr_body,
                   pr_number, monitoring, monitor_thread, subprocess,
                   exit_status, monitor_started, scriptVars>>

\* start_monitoring returns, run returns True, main ends
RunReturns ==
    /\ apc = "monitored"
    /\ apc' = "exited"
    /\ exit_status' = "exit 0"
    /\ UNCHANGED <<procVars, colVars, tokVars, mainVars, no_monitor, pr_title, pr_body,
                   pr_number, monitoring, monitor_thread, subprocess,
                   monitor_started, scriptVars>>

\* SIGINT while run is under way: signal_handler clears the flag and
\* sys.exit(0) ends the main thread
Interrupt ==
    /\ apc \in {"status", "push", "confirm", "create", "created", "starting",
                 "wait", "alive", "sleep", "monitored"}
    /\ monitoring' = FALSE
    /\ apc' = "exited"
    /\ exit_status' = "exit 0"
    /\ UNCHANGED <<procVars, colVars, tokVars, mainVars, no_monitor, pr_title, pr_body,
                   pr_number, monitor_thread, subprocess, monitor_started, scriptVars>>

\* _run_monitor: subprocess.run starts uv run python scripts/monitor_pr.py
LaunchSubprocess ==
    /\ apc # "exited"
    /\ monitor_thread = "started"
    /\ monitor_thread' = "waiting"
    /\ subprocess' = "running"
    /\ UNCHANGED <<procVars, colVars, tokVars, mainVars, apc, no_monitor, pr_title,
                   pr_body, pr_number, monitoring, exit_status, monitor_started, scriptVars>>

\* _run_monitor: subprocess.run cannot start the program (FileNotFoundError)
LaunchFails ==
    /\ apc # "exited"
    /\ monitor_thread = "started"
    /\ monitor_thread' = "finally"
    /\ UNCHANGED <<procVars, colVars, tokVars, mainVars, apc, no_monitor, pr_title,
                   pr_body, pr_number, monitoring, subprocess, exit_status,
                   monitor_started, scriptVars>>

\* _run_monitor: the subprocess ends, with status 0 or with
\* CalledProcessError, which is printed
SubprocessEnds ==
    /\ apc # "exited"
    /\ monitor_thread = "waiting"
    /\ subprocess' = "ended"
    /\ monitor_thread' = "finally"
    /\ UNCHANGED <<procVars, colVars, tokVars, mainVars, apc, no_monitor, pr_title,
                   pr_body, pr_number, monitoring, exit_status, monitor_started, scriptVars>>

\* a variant in which the thread leaves _run_monitor without clearing the
\* flag
ThreadEndsKeepsFlag ==
    /\ apc # "exited"
    /\ monitor_thread = "finally"
    /\ monitor_thread' = "ending"
    /\ UNCHANGED <<procVars, colVars, tokVars, mainVars, apc, no_monitor, pr_title,
                   pr_body, pr_number, monitoring, subprocess, exit_status,
                   monitor_started, scriptVars>>

\* _run_monitor: finally: self.monitoring = False; the thread is still
\* alive
ThreadFinally ==
    /\ apc # "exited"
    /\ monitor_thread = "finally"
    /\ monitoring' = FALSE
    /\ monitor_thread' = "ending"
    /\ UNCHANGED <<procVars, colVars, tokVars, mainVars, apc, no_monitor, pr_title,
                   pr_body, pr_number, subprocess, exit_status, monitor_started, scriptVars>>

\* _run_monitor has returned (or its exception has been printed by the
\* thread's excepthook): the thread ends, is_alive() is False from now on
ThreadEnds ==
    /\ apc # "exited"
    /\ monitor_thread = "ending"
    /\ monitor_thread' = "dead"
    /\ UNCHANGED <<procVars, colVars, tokVars, mainVars, apc, no_monitor, pr_title,
                   pr_body, pr_number, monitoring, subprocess, exit_status,
                   monitor_started, scriptVars>>

InitAutoPr ==
    /\ config = CfgPlain
    /\ sheet_data = <<>>
    /\ Idle
    /\ label = <<>>
    /\ col_result = Pending
    /\ TokIdle
    /\ MainIdle
    /\ PrIdle
    /\ ScriptsIdle

NextAutoPr ==
    \/ ParseArgs
    \/ CheckGh
    \/ CheckGitStatus
    \/ PushAndPrepare
    \/ Confirm
    \/ CreatePr
    \/ StartMonitoring
    \/ StartThread
    \/ WaitCheck
    \/ WaitCheckAlive
    \/ Sleep
    \/ RunReturns
    \/ Interrupt
    \/ LaunchSubprocess
    \/ LaunchFails
    \/ SubprocessEnds
    \/ ThreadFinally
    \/ ThreadEnds

SpecAutoPr == InitAutoPr /\ [][NextAutoPr]_vars

\* the steps of the main thread inside start_monitoring: the interpreter
\* keeps running it, and time.sleep(1) returns
MainThreadStep == StartThread \/ WaitCheck \/ WaitCheckAlive \/ Sleep

\* the steps of the monitor thread itself: once started it is scheduled, and
\* the wait loop's sleep releases the interpreter lock for it; how long the
\* subprocess runs is not the thread's to decide
MonitorThreadStep ==
    LaunchSubprocess \/ LaunchFails \/ ThreadFinally \/ ThreadEnds

SpecAutoPrFair ==
    /\ InitAutoPr
    /\ [][NextAutoPr]_vars
    /\ WF_vars(MainThreadStep)
    /\ WF_vars(MonitorThreadStep)

-----------------------------------------------------------------------------
(* scripts/monitor_pr.py: monitor_pr, one poll of the loop per step *)

\* the status of a check as GitHub reports it; QUEUED is neither completed
\* nor one of the two the loop counts as pending
CheckStatuses == {"COMPLETED", "PENDING", "IN_PROGRESS", "QUEUED"}

CheckConclusions == {"SUCCESS", "FAILURE"}

Checks == [status : CheckStatuses, conclusion : CheckConclusions]

\* the statusCheckRollup lists get_pr_status may return
CheckLists == SeqsUpTo(Checks, MaxChecks)

\* completed_checks, pending_checks, failed_checks
completed_checks(checks) == SelectSeq(checks, LAMBDA c : c.status = "COMPLETED")

pending_checks(checks) ==
    SelectSeq(checks, LAMBDA c : c.status \in {"PENDING", "IN_PROGRESS"})

failed_checks(checks) ==
    SelectSeq(completed_checks(checks), LAMBDA c : c.conclusion = "FAILURE")

\* all_complete = len(pending_checks) == 0
all_complete(checks) == Len(pending_checks(checks)) = 0

\* monitor_pr is called: the counters are set, the loop is entered
MonitorStart ==
    /\ mon_pc = "idle"
    /\ mon_pc' = "poll"
    /\ check_count' = 0
    /\ UNCHANGED <<procVars, colVars, tokVars, mainVars, prVars, fixVars, cleanVars, pr_info,
                   mon_report>>

\* a poll whose get_pr_status returns {} (gh failed, or its output is no
\* JSON): the failure is printed, the loop sleeps and continues
PollFetchFails ==
    /\ mon_pc = "poll"
    /\ check_count < MaxPolls
    /\ check_count' = check_count + 1
    /\ pr_info' = [ok |-> FALSE]
    /\ mon_pc' = "sleep"
    /\ UNCHANGED <<procVars, colVars, tokVars, mainVars, prVars, fixVars, cleanVars, mon_report>>

\* a poll whose get_pr_status returns the PR: the status and the comments
\* are printed, and the loop is left when the list is not empty and
\* all_complete holds
PollFetchReturns ==
    /\ mon_pc = "poll"
    /\ check_count < MaxPolls
    /\ check_count' = check_count + 1
    /\ \E checks \in CheckLists :
           /\ pr_info' = [ok |-> TRUE, checks |-> checks]
           /\ IF checks # <<>> /\ all_complete(checks)
              THEN /\ mon_pc' = "left"
                   /\ mon_report' = IF failed_checks(checks) # <<>>
                                    THEN "complete with failures"
                                    ELSE "all complete"
              ELSE /\ mon_pc' = "sleep"
                   /\ UNCHANGED mon_report
    /\ UNCHANGED <<procVars, colVars, tokVars, mainVars, prVars, fixVars, cleanVars>>

\* time.sleep(check_interval), then the next round of the loop
MonitorSleep ==
    /\ mon_pc = "sleep"
    /\ mon_pc' = "poll"
    /\ UNCHANGED <<procVars, colVars, tokVars, mainVars, prVars, fixVars, cleanVars, check_count,
                   pr_info, mon_report>>

InitMonitor ==
    /\ config = CfgPlain
    /\ sheet_data = <<>>
    /\ Idle
    /\ label = <<>>
    /\ col_result = Pending
    /\ TokIdle
    /\ MainIdle
    /\ PrIdle
    /\ ScriptsIdle

NextMonitor ==
    \/ MonitorStart
    \/ PollFetchFails
    \/ PollFetchReturns
    \/ MonitorSleep

SpecMonitor == InitMonitor /\ [][NextMonitor]_vars

-----------------------------------------------------------------------------
(* scripts/fix_workflow_errors.py: fix_all_errors with the fix steps,       *)
(* commit_and_push_fixes and verify_fixes                                    *)

\* the messages parse_error_from_comments may collect: a lint message that
\* names the --output-format option with "invalid value", and another one
LintMessages == {"output-format", "lint"}

ErrorDicts ==
    [ruff_lint : SeqsUpTo(LintMessages, MaxMessages),
     ruff_format : SeqsUpTo({"format"}, MaxMessages),
     yaml_lint : SeqsUpTo({"yaml"}, MaxMessages)]

\* any(errors.values())
AnyErrors(e) == e.ruff_lint # <<>> \/ e.ruff_format # <<>> \/ e.yaml_lint # <<>>

Step(name, ok) == [name |-> name, ok |-> ok]

\* fix_all_errors returns
FixReturn(value) ==
    /\ fpc' = "returned"
    /\ fix_returned' = IF value THEN "True" ELSE "False"

\* fix_all_errors is called: gh pr list gives the latest PR number, or
\* nothing that can be used
GetPr ==
    /\ fpc = "idle"
    /\ \E n \in {0, 1} : fix_pr' = n
    /\ fpc' = "parse"
    /\ UNCHANGED <<procVars, colVars, tokVars, mainVars, prVars, monVars, cleanVars, errors,
                   errors_fixed, fixed_any, elapsed, fix_returned, verify_returned,
                   steps, commit_status, polls, last_poll>>

\* parse_error_from_comments, and the return of True when it found nothing;
\* without a PR number there are no comments
ParseErrors ==
    /\ fpc = "parse"
    /\ \E e \in ErrorDicts :
          /\ fix_pr = 0 => e = NoErrors
          /\ errors' = e
          /\ IF ~AnyErrors(e)
             THEN FixReturn(TRUE)
             ELSE fpc' = "config" /\ UNCHANGED fix_returned
    /\ UNCHANGED <<procVars, colVars, tokVars, mainVars, prVars, monVars, cleanVars, fix_pr,
                   errors_fixed, fixed_any, elapsed, verify_returned, steps,
                   commit_status, polls, last_poll>>

\* fix_workflow_config_errors: the workflow file is rewritten when a lint
\* message names --output-format and the file exists
FixWorkflowConfig ==
    /\ fpc = "config"
    /\ \E exists \in BOOLEAN :
          LET named == \E n \in DOMAIN errors.ruff_lint :
                           errors.ruff_lint[n] = "output-format"
              ok == named /\ exists
          IN  /\ errors_fixed' = IF ok THEN Append(errors_fixed, "workflow config")
                                 ELSE errors_fixed
              /\ fixed_any' = ok
              /\ steps' = IF named THEN Append(steps, Step("workflow config", ok))
                          ELSE steps
    /\ fpc' = "format"
    /\ UNCHANGED <<procVars, colVars, tokVars, mainVars, prVars, monVars, cleanVars, fix_pr, errors,
                   elapsed, fix_returned, verify_returned, commit_status, polls,
                   last_poll>>

\* if errors["ruff_format"] and self.fix_ruff_format_errors()
FixRuffFormat ==
    /\ fpc = "format"
    /\ IF errors.ruff_format = <<>>
       THEN UNCHANGED <<errors_fixed, fixed_any, steps>>
       ELSE \E ok \in BOOLEAN :
               /\ errors_fixed' = IF ok THEN Append(errors_fixed, "ruff format")
                                  ELSE errors_fixed
               /\ fixed_any' = (fixed_any \/ ok)
               /\ steps' = Append(steps, Step("ruff format", ok))
    /\ fpc' = "lint"
    /\ UNCHANGED <<procVars, colVars, tokVars, mainVars, prVars, monVars, cleanVars, fix_pr, errors,
                   elapsed, fix_returned, verify_returned, commit_status, polls,
                   last_poll>>

\* if errors["ruff_lint"] and self.fix_ruff_lint_errors(): ruff check --fix
\* is recorded when it succeeds, the result is that of the ruff check after it
FixRuffLint ==
    /\ fpc = "lint"
    /\ IF errors.ruff_lint = <<>>
       THEN UNCHANGED <<errors_fixed, fixed_any, steps>>
       ELSE \E fixed \in BOOLEAN, ok \in BOOLEAN :
               /\ errors_fixed' = IF fixed THEN Append(errors_fixed, "ruff lint")
                                  ELSE errors_fixed
               /\ fixed_any' = (fixed_any \/ ok)
               /\ steps' = Append(steps, Step("ruff lint", ok))
    /\ fpc' = "yaml"
    /\ UNCHANGED <<procVars, colVars, tokVars, mainVars, prVars, monVars, cleanVars, fix_pr, errors,
                   elapsed, fix_returned, verify_returned, commit_status, polls,
                   last_poll>>

\* if errors["yaml_lint"] and self.fix_yaml_errors()
FixYaml ==
    /\ fpc = "yaml"
    /\ IF errors.yaml_lint = <<>>
       THEN UNCHANGED <<errors_fixed, fixed_any, steps>>
       ELSE \E ok \in BOOLEAN :
               /\ errors_fixed' = IF ok THEN Append(errors_fixed, "yaml")
                                  ELSE errors_fixed
               /\ fixed_any' = (fixed_any \/ ok)
               /\ steps' = Append(steps, Step("yaml", ok))
    /\ fpc' = "commit"
    /\ UNCHANGED <<procVars, colVars, tokVars, mainVars, prVars, monVars, cleanVars, fix_pr, errors,
                   elapsed, fix_returned, verify_returned, commit_status, polls,
                   last_poll>>

\* how commit_and_push_fixes may end
CommitOutcomes ==
    IF errors_fixed = <<>> THEN {"nothing"}
    ELSE {"unchanged", "commit failed", "push failed", "pushed"}

\* if fixed_any and self.commit_and_push_fixes(): return self.verify_fixes()
\* return fixed_any
CommitAndPush ==
    /\ fpc = "commit"
    /\ IF ~fixed_any
       THEN FixReturn(fixed_any) /\ UNCHANGED commit_status
       ELSE \E how \in CommitOutcomes :
               /\ commit_status' = how
               /\ IF how = "pushed"
                  THEN fpc' = "verify_wait" /\ UNCHANGED fix_returned
                  ELSE FixReturn(fixed_any)
    /\ UNCHANGED <<procVars, colVars, tokVars, mainVars, prVars, monVars, cleanVars, fix_pr, errors,
                   errors_fixed, fixed_any, elapsed, verify_returned, steps, polls,
                   last_poll>>

\* verify_fixes returns, and fix_all_errors returns what it returned
VerifyReturn(value) ==
    /\ verify_returned' = IF value THEN "True" ELSE "False"
    /\ FixReturn(value)

\* verify_fixes: time.sleep(wait_seconds), then get_latest_workflow_run,
\* which finds a run or none
VerifyWait ==
    /\ fpc = "verify_wait"
    /\ \E found \in BOOLEAN :
          IF found
          THEN /\ fpc' = "verify_loop"
               /\ elapsed' = 0
               /\ UNCHANGED <<fix_returned, verify_returned>>
          ELSE VerifyReturn(FALSE) /\ UNCHANGED elapsed
    /\ UNCHANGED <<procVars, colVars, tokVars, mainVars, prVars, monVars, cleanVars, fix_pr, errors,
                   errors_fixed, fixed_any, steps, commit_status, polls, last_poll>>

\* what one gh run view may give: the command fails, its output is no
\* JSON, or it reports a status and a conclusion
PollResults == {"failed", "unparseable", "in_progress", "success", "failure"}

\* a variant in which a poll that fails or cannot be parsed is not counted
VerifyPollFreeOnFailure ==
    /\ fpc = "verify_loop"
    /\ elapsed < max_wait
    /\ \E seen \in PollResults :
          /\ last_poll' = seen
          /\ polls' = polls + 1
          /\ IF seen \in {"success", "failure"}
             THEN VerifyReturn(seen = "success") /\ UNCHANGED elapsed
             ELSE /\ elapsed' = IF seen = "in_progress"
                                THEN elapsed + check_interval ELSE elapsed
                  /\ UNCHANGED <<fpc, fix_returned, verify_returned>>
    /\ UNCHANGED <<procVars, colVars, tokVars, mainVars, prVars, monVars, cleanVars, fix_pr, errors,
                   errors_fixed, fixed_any, steps, commit_status>>

\* verify_fixes: one round of while elapsed < max_wait
VerifyPoll ==
    /\ fpc = "verify_loop"
    /\ elapsed < max_wait
    /\ \E seen \in PollResults :
          /\ last_poll' = seen
          /\ polls' = polls + 1
          /\ IF seen \in {"success", "failure"}
             THEN VerifyReturn(seen = "success") /\ UNCHANGED elapsed
             ELSE /\ elapsed' = elapsed + check_interval
                  /\ UNCHANGED <<fpc, fix_returned, verify_returned>>
    /\ UNCHANGED <<procVars, colVars, tokVars, mainVars, prVars, monVars, cleanVars, fix_pr, errors,
                   errors_fixed, fixed_any, steps, commit_status>>

\* verify_fixes: the loop condition fails, the timeout is printed
VerifyTimeout ==
    /\ fpc = "verify_loop"
    /\ ~(elapsed < max_wait)
    /\ VerifyReturn(FALSE)
    /\ UNCHANGED <<procVars, colVars, tokVars, mainVars, prVars, monVars, cleanVars, fix_pr, errors,
                   errors_fixed, fixed_any, elapsed, steps, commit_status, polls,
                   last_poll>>

InitFix ==
    /\ config = CfgPlain
    /\ sheet_data = <<>>
    /\ Idle
    /\ label = <<>>
    /\ col_result = Pending
    /\ TokIdle
    /\ MainIdle
    /\ PrIdle
    /\ ScriptsIdle

NextFix ==
    \/ GetPr
    \/ ParseErrors
    \/ FixWorkflowConfig
    \/ FixRuffFormat
    \/ FixRuffLint
    \/ FixYaml
    \/ CommitAndPush
    \/ VerifyWait
    \/ VerifyPoll
    \/ VerifyTimeout

SpecFix == InitFix /\ [][NextFix]_vars

\* the script runs on: every command it starts returns, every sleep ends
SpecFixFair == SpecFix /\ WF_vars(NextFix)

-----------------------------------------------------------------------------
(* scripts/cleanup_drive_storage.py: main, find_cleanup_candidates and      *)
(* cleanup_files, one delete request per step                                *)

DriveIds == 1..MaxFiles

\* a file of the listing: its id, whether its name is that of a temporary
\* file ("Copy", "temp", "tmp_copy_" ...), its age in days, its size
DriveFiles == [id : DriveIds, temp_name : BOOLEAN, age : {10, 40}, size : {1, 2}]

\* the listings: files with different ids
Listings == {l \in SeqsUpTo(DriveFiles, MaxFiles) :
                \A i, j \in DOMAIN l : l[i].id = l[j].id => i = j}

\* find_cleanup_candidates: the two lists of candidates, in listing order
TempCandidates(files) == SelectSeq(files, LAMBDA f : f.temp_name)

OldCandidates(files) == SelectSeq(files, LAMBDA f : f.age > thirty_days)

\* sorted(old_files, key=size, reverse=True): the sort is stable
RECURSIVE InsertBySize(_, _)
InsertBySize(sorted, file) ==
    IF sorted = <<>> THEN <<file>>
    ELSE IF Head(sorted).size >= file.size
    THEN <<Head(sorted)>> \o InsertBySize(Tail(sorted), file)
    ELSE <<file>> \o sorted

RECURSIVE SortedBySize(_)
SortedBySize(files) ==
    IF files = <<>> THEN <<>>
    ELSE InsertBySize(SortedBySize(SubSeq(files, 1, Len(files) - 1)),
                      files[Len(files)])

\* main starts; get_drive_usage_info gives the usage, or {} and main returns
CleanStart ==
    /\ cpc = "idle"
    /\ \E usage \in BOOLEAN : cpc' = IF usage THEN "find" ELSE "returned"
    /\ UNCHANGED <<procVars, colVars, tokVars, mainVars, prVars, monVars, fixVars,
                   listing, present, temp_files, old_files, next_file,
                   total_deleted, total_errors, requests, failures>>

\* find_cleanup_candidates lists the Drive and fills the two lists
FindCandidates ==
    /\ cpc = "find"
    /\ \E files \in Listings :
          /\ listing' = files
          /\ present' = {files[n].id : n \in DOMAIN files}
          /\ temp_files' = TempCandidates(files)
          /\ old_files' = OldCandidates(files)
    /\ cpc' = "temp"
    /\ next_file' = 1
    /\ UNCHANGED <<procVars, colVars, tokVars, mainVars, prVars, monVars, fixVars,
                   total_deleted, total_errors, requests, failures>>

\* cleanup_files: service.files().delete(fileId=file_id).execute() for one
\* file: the file is deleted, or HttpError is raised, as it always is for a
\* file that is on the Drive no more
DeleteRequest(file) ==
    /\ requests' = Append(requests, file.id)
    /\ \E ok \in BOOLEAN :
          IF ok /\ file.id \in present
          THEN /\ present' = present \ {file.id}
               /\ total_deleted' = total_deleted + 1
               /\ UNCHANGED <<total_errors, failures>>
          ELSE /\ total_errors' = total_errors + 1
               /\ failures' = Append(failures,
                                 [id |-> file.id, gone |-> file.id \notin present])
               /\ UNCHANGED <<present, total_deleted>>
    /\ next_file' = next_file + 1

\* cleanup_files on the temporary files, one file
DeleteTempFile ==
    /\ cpc = "temp"
    /\ next_file <= Len(temp_files)
    /\ DeleteRequest(temp_files[next_file])
    /\ UNCHANGED <<procVars, colVars, tokVars, mainVars, prVars, monVars, fixVars, cpc,
                   listing, temp_files, old_files>>

\* the temporary files are done: the old files are sorted by size, the
\* largest first, and cut to the limit
SortOldFiles ==
    /\ cpc = "temp"
    /\ next_file > Len(temp_files)
    /\ old_files' = PySlice(SortedBySize(old_files), 0, old_files_limit)
    /\ next_file' = 1
    /\ cpc' = "old"
    /\ UNCHANGED <<procVars, colVars, tokVars, mainVars, prVars, monVars, fixVars,
                   listing, present, temp_files, total_deleted, total_errors,
                   requests, failures>>

\* cleanup_files on the old files, one file
DeleteOldFile ==
    /\ cpc = "old"
    /\ next_file <= Len(old_files)
    /\ DeleteRequest(old_files[next_file])
    /\ UNCHANGED <<procVars, colVars, tokVars, mainVars, prVars, monVars, fixVars, cpc,
                   listing, temp_files, old_files>>

\* the usage after the cleanup and the summary are printed, main returns
CleanSummary ==
    /\ cpc = "old"
    /\ next_file > Len(old_files)
    /\ cpc' = "returned"
    /\ UNCHANGED <<procVars, colVars, tokVars, mainVars, prVars, monVars, fixVars,
                   listing, present, temp_files, old_files, next_file,
                   total_deleted, total_errors, requests, failures>>

InitClean ==
    /\ config = CfgPlain
    /\ sheet_data = <<>>
    /\ Idle
    /\ label = <<>>
    /\ col_result = Pending
    /\ TokIdle
    /\ MainIdle
    /\ PrIdle
    /\ ScriptsIdle

NextClean ==
    \/ CleanStart
    \/ FindCandidates
    \/ DeleteTempFile
    \/ SortOldFiles
    \/ DeleteOldFile
    \/ CleanSummary

SpecClean == InitClean /\ [][NextClean]_vars

-----------------------------------------------------------------------------
(* What the claims speak of, stated without the code's algorithms *)

Letters == Range(UpperLetters) \cup Range(LowerLetters)

\* a column label: one or more letters A-Z, in either case
ValidLabel(l) == l # <<>> /\ \A i \in DOMAIN l : l[i] \in Letters

\* A = 1 .. Z = 26, in either case
LetterRank(c) ==
    IF c \in Range(UpperLetters) THEN PosIn(UpperLetters, c) ELSE PosIn(LowerLetters, c)

RECURSIVE Power(_, _)
Power(b, n) == IF n = 0 THEN 1 ELSE b * Power(b, n - 1)

\* the value of a sequence of digits in a base, most significant digit first
RECURSIVE PlaceSum(_, _)
PlaceSum(ds, base) ==
    IF ds = <<>> THEN 0
    ELSE Head(ds) * Power(base, Len(ds) - 1) + PlaceSum(Tail(ds), base)

\* the label read as a bijective base-26 numeral, most significant letter first
Bijective26(l) == PlaceSum([i \in DOMAIN l |-> LetterRank(l[i])], 26)

\* the 0-based offset of the column a label names
Offset(l) == Bijective26(l) - 1

\* the upper-case label of a bijective base-26 value
RECURSIVE LabelOfValue(_)
LabelOfValue(v) ==
    IF v <= 26 THEN <<UpperLetters[v]>>
    ELSE LabelOfValue((v - 1) \div 26) \o <<UpperLetters[((v - 1) % 26) + 1]>>

\* every label of the configuration
LabelsOf(cfg) ==
    {cfg.end_check_columns[1], cfg.end_check_columns[2]}
    \cup {cfg.column_mapping[i].col : i \in DOMAIN cfg.column_mapping}

HasInvalidLabel(cfg) == \E l \in LabelsOf(cfg) : ~ValidLabel(l)

ValidCheckRange(cfg) ==
    ValidLabel(cfg.end_check_columns[1]) /\ ValidLabel(cfg.end_check_columns[2])

\* empty after trimming
Blank(cell) == \A i \in DOMAIN cell : cell[i] = " "

\* the cell at a 0-based offset, a missing cell counting as empty
CellAt(row, k) == IF k < Len(row) THEN row[k + 1] ELSE <<>>

\* every cell of the inclusive check range is empty after trimming
EndRow(row, cfg) ==
    \A k \in Offset(cfg.end_check_columns[1])..Offset(cfg.end_check_columns[2]) :
        Blank(CellAt(row, k))

\* the 1-based number of the first end row at or after data_start_row,
\* one past the grid when there is none
FirstEnd(cfg, grid) ==
    LET ends == {i \in cfg.data_start_row..Len(grid) : EndRow(grid[i], cfg)}
    IN  IF ends = {} THEN Len(grid) + 1
        ELSE CHOOSE i \in ends : \A j \in ends : i <= j

\* the records appended so far, in append order
EmittedRecords == [i \in DOMAIN emitted |-> emitted[i].record]

\* how often x occurs in seq
Count(seq, x) == Cardinality({i \in DOMAIN seq : seq[i] = x})

\* an optional sign and one or more decimal digits, blanks around
IsNumeral(s) ==
    LET ds == SelectSeq(s, LAMBDA c : c \in Range(Digits))
        sg == SelectSeq(s, LAMBDA c : c \in {"+", "-"})
    IN  /\ ds # <<>>
        /\ Len(sg) <= 1
        /\ \E a, b \in 0..Len(s) :
              /\ a + Len(sg) + Len(ds) + b = Len(s)
              /\ \A i \in 1..a : s[i] = " "
              /\ \A i \in (a + 1)..(a + Len(sg)) : s[i] \in {"+", "-"}
              /\ \A i \in (a + Len(sg) + 1)..(a + Len(sg) + Len(ds)) :
                    s[i] \in Range(Digits)
              /\ \A i \in (Len(s) - b + 1)..Len(s) : s[i] = " "

NumeralValue(s) ==
    LET ds == SelectSeq(s, LAMBDA c : c \in Range(Digits))
        n  == PlaceSum([i \in DOMAIN ds |-> PosIn(Digits, ds[i]) - 1], 10)
    IN  IF \E i \in DOMAIN s : s[i] = "-" THEN 0 - n ELSE n

\* the integer value of the ID field; 0 when it is absent, empty or no integer
ParsedID(rec) ==
    LET ids == {i \in DOMAIN rec : rec[i].key = "ID"}
    IN  IF ids = {} THEN 0
        ELSE LET val == rec[CHOOSE i \in ids : TRUE].val
             IN  IF val.t = "str" /\ IsNumeral(val.v) THEN NumeralValue(val.v) ELSE 0

\* seq without the elements that occurred before
RECURSIVE FirstOccurrences(_)
FirstOccurrences(seq) ==
    IF seq = <<>> THEN <<>>
    ELSE LET front == SubSeq(seq, 1, Len(seq) - 1)
             last  == seq[Len(seq)]
         IN  FirstOccurrences(front)
             \o (IF last \in Range(front) THEN <<>> ELSE <<last>>)

NoRepeat(seq) == \A i, j \in DOMAIN seq : seq[i] = seq[j] => i = j

\* the output keys some column maps as an array
ArrayKeySet(cfg) ==
    {cfg.column_mapping[i].key : i \in {j \in DOMAIN cfg.column_mapping :
                                            cfg.column_mapping[j].is_array}}

\* the output keys in the order of their first appearance in the mapping
FirstAppearanceKeys(cfg) ==
    FirstOccurrences([i \in DOMAIN cfg.column_mapping |-> cfg.column_mapping[i].key])

\* some column mapped to the key has a cell that is neither blank nor ignored
HasUsableCell(cfg, row, key) ==
    \E i \in DOMAIN cfg.column_mapping :
        /\ cfg.column_mapping[i].key = key
        /\ ~Blank(CellAt(row, Offset(cfg.column_mapping[i].col)))
        /\ Strip(CellAt(row, Offset(cfg.column_mapping[i].col))) \notin cfg.ignore_values

\* what the loop over the columns left in the record of emitted[i], before
\* the repeated items are removed
Accumulated(i) ==
    MapColumns(NewRecord(array_keys, ordered_keys), config.column_mapping,
               sheet_data[emitted[i].row], config.ignore_values).record

\* the number of "[" still open before position i, a "]" with no "[" open
\* counting for nothing
RECURSIVE Depth(_, _)
Depth(s, i) ==
    IF i <= 1 THEN 0
    ELSE LET d == Depth(s, i - 1)
         IN  IF s[i - 1] = "[" THEN d + 1
             ELSE IF s[i - 1] = "]" THEN Max(0, d - 1)
             ELSE d

\* a comma outside every [ ... ] span opened before it, closed or not
TopLevelComma(s, i) == s[i] = "," /\ Depth(s, i) = 0

\* the pieces between the top-level commas
RECURSIVE SafePieces(_)
SafePieces(s) ==
    LET cs == {i \in DOMAIN s : TopLevelComma(s, i)}
    IN  IF cs = {} THEN <<s>>
        ELSE LET i == CHOOSE c \in cs : \A d \in cs : c <= d
             IN  <<SubSeq(s, 1, i - 1)>> \o SafePieces(SubSeq(s, i + 1, Len(s)))

\* the bracket-aware split: pieces trimmed, empty pieces dropped
SafeSplit(s) == StripNonEmpty(SafePieces(s))

\* prefix[body] ending the part: one "[", one "]", both parts non-empty
OnePair(part) ==
    /\ Count(part, "[") = 1
    /\ Count(part, "]") = 1
    /\ part[Len(part)] = "]"
    /\ PosIn(part, "[") > 1
    /\ PosIn(part, "[") < Len(part) - 1

\* the tokens of one trimmed top-level part
PartTokens(part) ==
    IF part # <<>> /\ OnePair(part)
    THEN LET k == PosIn(part, "[")
             prefix == Strip(SubSeq(part, 1, k - 1))
         IN  (IF prefix = <<>> THEN <<>> ELSE <<prefix>>)
             \o StripNonEmpty(SplitOn(SubSeq(part, k + 1, Len(part) - 1), ","))
    ELSE <<part>>

RECURSIVE Flatten(_)
Flatten(seqs) == IF seqs = <<>> THEN <<>> ELSE Head(seqs) \o Flatten(Tail(seqs))

\* the tokens of the top-level parts, in encounter order
GroupedTokens(parts) == Flatten([i \in DOMAIN parts |-> PartTokens(parts[i])])

\* the cell of a mapped column is missing, blank or an ignore value
Unusable(cfg, row, m) ==
    LET cell == CellAt(row, Offset(m.col))
    IN  Blank(cell) \/ Strip(cell) \in cfg.ignore_values

\* the record of a row built from the columns with a usable cell alone
RecordOfUsable(cfg, row, akeys, okeys) ==
    Dedup(MapColumns(NewRecord(akeys, okeys),
                     SelectSeq(cfg.column_mapping, LAMBDA m : ~Unusable(cfg, row, m)),
                     row, cfg.ignore_values).record,
          akeys)

\* the row with every cell whose trimmed value is an ignore value emptied
BlankedRow(cfg, row) ==
    [j \in DOMAIN row |->
        IF Strip(row[j]) \in cfg.ignore_values THEN <<>> ELSE row[j]]

\* the grid with every such cell emptied
Blanked(cfg, grid) == [i \in DOMAIN grid |-> BlankedRow(cfg, grid[i])]

\* every check-range cell is blank or an ignore value, one at least is the latter
IgnoredInCheckRange(cfg, row) ==
    LET ks == Offset(cfg.end_check_columns[1])..Offset(cfg.end_check_columns[2])
    IN  /\ \A k \in ks : \/ Blank(CellAt(row, k))
                           \/ Strip(CellAt(row, k)) \in cfg.ignore_values
        /\ \E k \in ks : Strip(CellAt(row, k)) \in cfg.ignore_values

\* the rows of the grid from a 1-based row number on
RowsFrom(grid, n) == SubSeq(grid, n, Len(grid))

\* how many rows lie between data_start_row and the end-of-data row, both
\* included, the last row of the grid standing in when no row ends the data
RowsToEnd(cfg, grid) ==
    Cardinality(cfg.data_start_row..Min(FirstEnd(cfg, grid), Len(grid)))

\* the value without its leading and trailing blanks
Trim(s) ==
    LET solid == {i \in DOMAIN s : s[i] # " "}
    IN  IF solid = {} THEN <<>>
        ELSE SubSeq(s, CHOOSE i \in solid : \A j \in solid : i <= j,
                       CHOOSE i \in solid : \A j \in solid : j <= i)

\* the fields of s between the occurrences of the character c, in order
Fields(s, c) ==
    LET at == {0, Len(s) + 1} \cup {i \in DOMAIN s : s[i] = c}
        lefts == at \ {Len(s) + 1}
        NextAt(a) == CHOOSE b \in at : b > a /\ \A d \in at : d > a => b <= d
        Nth(n) == CHOOSE a \in lefts : Cardinality({d \in lefts : d < a}) = n - 1
    IN  [n \in 1..Cardinality(lefts) |-> SubSeq(s, Nth(n) + 1, NextAt(Nth(n)) - 1)]

\* the fields trimmed, the empty ones left out
TrimmedFields(s, c) ==
    SelectSeq([n \in DOMAIN Fields(s, c) |-> Trim(Fields(s, c)[n])],
              LAMBDA f : f # <<>>)

\* the crossover marker occurs somewhere in the value
HasMarker(s) ==
    \E i \in 1..(Len(s) - 1) : s[i] = CrossMarker[1] /\ s[i + 1] = CrossMarker[2]

\* the positions of the mapping whose column maps to the key
ColumnsOf(cfg, key) ==
    {j \in DOMAIN cfg.column_mapping : cfg.column_mapping[j].key = key}

\* the positions among them whose cell in the row is usable
UsableColumnsOf(cfg, row, key) ==
    {j \in ColumnsOf(cfg, key) : ~Unusable(cfg, row, cfg.column_mapping[j])}

\* the keys every one of whose columns is a scalar column
ScalarKeys(cfg) ==
    {cfg.column_mapping[j].key : j \in DOMAIN cfg.column_mapping} \ ArrayKeySet(cfg)

\* the trimmed cell of the last usable column of the key, "" when none is
LastUsableValue(cfg, row, key) ==
    LET us == UsableColumnsOf(cfg, row, key)
    IN  IF us = {} THEN <<>>
        ELSE LET j == CHOOSE u \in us : \A v \in us : v <= u
             IN  Trim(CellAt(row, Offset(cfg.column_mapping[j].col)))

\* the keys every one of whose columns is an array column
PureArrayKeys(cfg) ==
    {key \in ArrayKeySet(cfg) :
        \A j \in ColumnsOf(cfg, key) : cfg.column_mapping[j].is_array}

\* the tokens of the usable columns of the key, one sequence per column of
\* the key, in the order of the mapping
TokensPerColumn(cfg, row, key) ==
    LET cols == SelectSeq(cfg.column_mapping, LAMBDA m : m.key = key)
    IN  [n \in DOMAIN cols |->
            IF Unusable(cfg, row, cols[n]) THEN <<>>
            ELSE NewValues(key, Trim(CellAt(row, Offset(cols[n].col))))]

\* the 1-based numbers of the rows from data_start_row to the row before the
\* first terminal row
DataRowNumbers(cfg, grid) == cfg.data_start_row..(FirstEnd(cfg, grid) - 1)

\* the records of those rows, in grid order
RowRecords(cfg, grid, akeys, okeys) ==
    [n \in 1..Cardinality(DataRowNumbers(cfg, grid)) |->
        _process_row(grid[cfg.data_start_row + n - 1], cfg, akeys, okeys).record]

\* the records ordered by descending ID, records of one ID in their order
RECURSIVE ByIdDescending(_, _)
ByIdDescending(recs, ids) ==
    IF ids = {} THEN <<>>
    ELSE LET top == CHOOSE m \in ids : \A n \in ids : n <= m
         IN  SelectSeq(recs, LAMBDA r : ParsedID(r) = top)
             \o ByIdDescending(recs, ids \ {top})

StableDescending(recs) ==
    ByIdDescending(recs, {ParsedID(recs[n]) : n \in DOMAIN recs})

\* the single characters of a string, each once, in order
SingleCharacters(value) ==
    FirstOccurrences([n \in DOMAIN value |-> <<value[n]>>])

\* the trimmed cells of two or more characters in the usable scalar columns
\* of the key
ScalarCellsOf(cfg, row, key) ==
    {v \in {Trim(CellAt(row, Offset(cfg.column_mapping[j].col))) :
                j \in {u \in UsableColumnsOf(cfg, row, key) :
                          ~cfg.column_mapping[u].is_array}} : Len(v) >= 2}

-----------------------------------------------------------------------------
(* The claims *)

\* C1: process stops at the first row, at or after data_start_row, whose
\* cells in the inclusive check range are all empty after trimming (a missing
\* cell counts as empty): every record appended comes from a row before that
\* row, and the records returned are the records appended, no more.
C1_StopsAtFirstEndRow ==
    ValidCheckRange(config) =>
        /\ \A i \in DOMAIN emitted : emitted[i].row < FirstEnd(config, sheet_data)
        /\ pc = "done" =>
              \A i \in DOMAIN processed_list :
                  Count(processed_list, processed_list[i])
                      = Count(EmittedRecords, processed_list[i])

\* C1 witness: process returned records, having stopped at an end row that is
\* followed by a row with data in the check range.
C1_Witness ==
    /\ pc = "done"
    /\ ValidCheckRange(config)
    /\ processed_list # <<>>
    /\ \E j \in (FirstEnd(config, sheet_data) + 1)..Len(sheet_data) :
          ~EndRow(sheet_data[j], config)

\* C2: the sequence returned is in non-increasing order of parsed ID.
C2_DescendingById ==
    pc = "done" =>
        \A i, j \in DOMAIN processed_list :
            i < j => ParsedID(processed_list[i]) >= ParsedID(processed_list[j])

\* C2 witness: process returned after the sort had to move a record: a row
\* with ID 9 was appended before a row with ID 10.
C2_Witness ==
    /\ pc = "done"
    /\ \E i, j \in DOMAIN emitted :
          /\ i < j
          /\ ParsedID(emitted[i].record) = 9
          /\ ParsedID(emitted[j].record) = 10

\* C3: the sort is stable: the records of equal parsed ID are returned in
\* the order in which they were appended, which is the order of their rows.
C3_StableSort ==
    /\ \A i, j \in DOMAIN emitted : i < j => emitted[i].row < emitted[j].row
    /\ pc = "done" =>
          \A n \in {ParsedID(EmittedRecords[i]) : i \in DOMAIN emitted} :
              SelectSeq(processed_list, LAMBDA r : ParsedID(r) = n)
                  = SelectSeq(EmittedRecords, LAMBDA r : ParsedID(r) = n)

\* C3 witness: process returned two different records of equal parsed ID and,
\* appended after them, a record of greater parsed ID.
C3_Witness ==
    /\ pc = "done"
    /\ \E i, j, k \in DOMAIN emitted :
          /\ i < j /\ j < k
          /\ emitted[i].record # emitted[j].record
          /\ ParsedID(emitted[i].record) = ParsedID(emitted[j].record)
          /\ ParsedID(emitted[k].record) > ParsedID(emitted[j].record)

\* C4: in every record, every array key holds a sequence without repeats:
\* the items that the loop over the columns accumulated under the key, each
\* kept at its first occurrence only, in that order.
C4_ArrayFieldsDeduplicated ==
    \A i \in DOMAIN emitted : \A key \in ArrayKeySet(config) :
        LET final == Get(emitted[i].record, key)
        IN  /\ final.t = "list"
            /\ NoRepeat(final.v)
            /\ final.v = FirstOccurrences(Items(Get(Accumulated(i), key)))

\* C4 witness: a returned record holds two or more tokens under an array key
\* for which a token was accumulated twice, the two not next to each other.
C4_Witness ==
    /\ pc = "done"
    /\ \E i \in DOMAIN emitted : \E key \in ArrayKeySet(config) :
          LET acc == Get(Accumulated(i), key)
          IN  /\ acc.t = "list"
              /\ Len(Get(emitted[i].record, key).v) >= 2
              /\ \E a, b \in DOMAIN acc.v :
                    a + 1 < b /\ acc.v[a] = acc.v[b] /\ acc.v[a + 1] # acc.v[a]

\* C5: the keys of every record are the distinct output keys of the column
\* mapping in the order of their first appearance; a key without a usable
\* contributing cell holds the empty sequence if it is an array key and the
\* empty string otherwise.
C5_KeysAndDefaults ==
    \A i \in DOMAIN emitted :
        /\ Keys(emitted[i].record) = FirstAppearanceKeys(config)
        /\ ~HasInvalidLabel(config) =>
              \A key \in Range(FirstAppearanceKeys(config)) :
                  ~HasUsableCell(config, sheet_data[emitted[i].row], key) =>
                      Get(emitted[i].record, key)
                          = IF key \in ArrayKeySet(config) THEN List(<<>>)
                            ELSE Str(<<>>)

\* C5 witness: under a mapping that names an array key twice, a returned
\* record holds the empty sequence under that key and a value under another.
C5_Witness ==
    /\ pc = "done"
    /\ ~HasInvalidLabel(config)
    /\ Len(FirstAppearanceKeys(config)) < Len(config.column_mapping)
    /\ \E i \in DOMAIN emitted :
          \E key \in ArrayKeySet(config), other \in Range(FirstAppearanceKeys(config)) :
              /\ ~HasUsableCell(config, sheet_data[emitted[i].row], key)
              /\ Get(emitted[i].record, key) = List(<<>>)
              /\ HasUsableCell(config, sheet_data[emitted[i].row], other)

\* C6: every call of process with the same grid and configuration, on the
\* same processor or on a new one, has the same outcome.
C6_SameOutcomeEveryCall ==
    \A i, j \in DOMAIN outcomes : outcomes[i] = outcomes[j]

\* C6 witness: two calls have returned, each two or more records that the
\* sort had to reorder.
C6_Witness ==
    /\ pc = "done"
    /\ Len(outcomes) >= 2
    /\ Len(processed_list) >= 2
    /\ processed_list # EmittedRecords

\* C7: with an empty label or a label with a character outside A-Z in the
\* configuration, process raises a configuration error before it processes
\* any row and returns no records.
C7_ConfigErrorBeforeAnyRow ==
    (HasInvalidLabel(config) /\ pc # "idle") =>
        /\ pc = "raised"
        /\ exc = "InvalidColumnLabel"
        /\ emitted = <<>>

\* C8: _col_to_index fails with InvalidColumnLabel for the empty label and
\* for a label with a character outside A-Z.
C8_InvalidLabelRaises ==
    (col_result.status # "pending" /\ ~ValidLabel(label)) =>
        col_result.status = "raised"

\* C9: for a label of letters, _col_to_index returns the bijective base-26
\* value of the label minus 1, whatever the case of the letters; the result
\* is not negative, and it determines the label up to case.
C9_BijectiveBase26 ==
    (col_result.status # "pending" /\ ValidLabel(label)) =>
        /\ col_result.status = "returned"
        /\ col_result.value = Bijective26(label) - 1
        /\ col_result.value >= 0
        /\ LabelOfValue(col_result.value + 1) = Upper(label)

\* C9 witness: the label "aB" was converted, to 27.
C9_Witness ==
    /\ label = <<"a", "B">>
    /\ col_result = Returned(27)

\* C10: under a configuration whose labels are all column labels, no
\* exception leaves _process_row, so none leaves process.
C10_NoExceptionEscapes ==
    ~HasInvalidLabel(config) => pc # "raised"

\* C11: an array column that is neither the singer column nor a crossover
\* brand value splits its cell with the bracket-aware split: a comma inside a
\* [ ... ] span is no split point, so "A[1,2], B" gives "A[1,2]" and "B".
C11_DefaultSplitBracketAware ==
    tok_result.by = "default" => tok_result.tokens = SafeSplit(cell_value)

\* C12: _parse_singers gives, for each top-level part in order, the trimmed
\* prefix and the trimmed non-empty members of the body when the part is
\* prefix[body] with exactly one bracket pair, and the trimmed part itself
\* otherwise, so "A[b]c[d]" comes out as it is.
C12_ParseSingersOnePair ==
    tok_result.by = "singers" =>
        tok_result.tokens = GroupedTokens(StripNonEmpty(SingerSplit(cell_value)))

\* C20: SINGER_SPLIT_PATTERN splits at a comma exactly when the comma is not
\* inside a [ ... ] span opened before it, closed or not: "A[x, y" stays one
\* piece and "A, B]" is split; the pieces are trimmed, empty ones dropped.
C20_SplitOutsideSpans ==
    tok_result.by = "split" =>
        StripNonEmpty(tok_result.tokens) = SafeSplit(cell_value)

\* C13: in _process_row a mapped column contributes nothing to the record
\* when its cell is missing because the row is too short, is empty or
\* whitespace-only, or has a trimmed value in ignore_values: the record is
\* the one built from the other columns alone.
C13_UnusableCellContributesNothing ==
    ~HasInvalidLabel(config) =>
        \A i \in DOMAIN emitted :
            emitted[i].record =
                RecordOfUsable(config, sheet_data[emitted[i].row],
                               array_keys, ordered_keys)

\* appended records with a missing cell, a whitespace-only cell and an
\* ignored cell under mapped columns
C13_Witness ==
    /\ ~HasInvalidLabel(config)
    /\ \E i \in DOMAIN emitted : \E j \in DOMAIN config.column_mapping :
           Offset(config.column_mapping[j].col) >= Len(sheet_data[emitted[i].row])
    /\ \E i \in DOMAIN emitted : \E j \in DOMAIN config.column_mapping :
           LET cell == CellAt(sheet_data[emitted[i].row],
                              Offset(config.column_mapping[j].col))
           IN  cell # <<>> /\ Blank(cell)
    /\ \E i \in DOMAIN emitted : \E j \in DOMAIN config.column_mapping :
           Strip(CellAt(sheet_data[emitted[i].row],
                        Offset(config.column_mapping[j].col)))
               \in config.ignore_values

\* C14 as stated: a cell whose trimmed value is an ignore value is an empty
\* cell everywhere: emptying every such cell of the grid does not change the
\* output of process, the place where the table ends included.
C14_IgnoredIsEmptyEverywhere ==
    pc \in {"done", "raised"} =>
        outcomes[Len(outcomes)] = process(config, Blanked(config, sheet_data))

\* C14 amended: an ignored cell is an empty cell for _process_row alone:
\* emptying the ignored cells of a row does not change its record.  The end
\* of the table is decided on blankness alone: process returns the records
\* of exactly the rows from data_start_row to the row before the first row
\* whose check-range cells are all blank, ignore values counting as data.
C14_IgnoredIsEmptyInRow ==
    /\ \A i \in DOMAIN emitted :
           LET r == _process_row(BlankedRow(config, sheet_data[emitted[i].row]),
                                 config, array_keys, ordered_keys)
           IN  r.exc = "none" /\ r.record = emitted[i].record
    /\ (pc = "done" /\ ValidCheckRange(config)) =>
           {emitted[i].row : i \in DOMAIN emitted}
               = config.data_start_row..(FirstEnd(config, sheet_data) - 1)

\* process has returned the record of a row whose check-range cells are
\* blank or ignore values
C14_Witness ==
    /\ pc = "done"
    /\ \E i \in DOMAIN emitted :
           /\ IgnoredInCheckRange(config, sheet_data[emitted[i].row])
           /\ emitted[i].record \in Range(processed_list)

\* C15: the rows before data_start_row (1-based) are skipped and the scan
\* runs over every row from data_start_row on: no record comes from an
\* earlier row, the first row examined is row data_start_row, and a grid
\* with fewer rows than data_start_row gives an empty output.
C15_ScanStartsAtDataStartRow ==
    pc # "idle" =>
        /\ data_rows = RowsFrom(sheet_data, config.data_start_row)
        /\ \A i \in DOMAIN emitted : emitted[i].row >= config.data_start_row
        /\ (pc = "loop" /\ next_row <= Len(data_rows)) =>
               /\ config.data_start_row + next_row - 1 \in DOMAIN sheet_data
               /\ data_rows[next_row]
                      = sheet_data[config.data_start_row + next_row - 1]
        /\ (pc = "done" /\ Len(sheet_data) < config.data_start_row) =>
               processed_list = <<>>

\* a header row with data in the check range was skipped and the row after
\* it gave the first record
C15_Witness ==
    /\ pc = "done"
    /\ config.data_start_row = 2
    /\ Len(sheet_data) >= 2
    /\ ~EndRow(sheet_data[1], config)
    /\ emitted # <<>>
    /\ emitted[1].row = 2

\* C16: process returns at most as many records as the grid has rows from
\* data_start_row up to the end-of-data row.
C16_CountBoundedByRows ==
    (pc = "done" /\ ValidCheckRange(config)) =>
        Len(processed_list) <= RowsToEnd(config, sheet_data)

\* process has returned records though rows with data follow the
\* end-of-data row
C16_Witness ==
    /\ pc = "done"
    /\ ValidCheckRange(config)
    /\ processed_list # <<>>
    /\ \E i \in (FirstEnd(config, sheet_data) + 1)..Len(sheet_data) :
           ~EndRow(sheet_data[i], config)

\* C17: process leaves its inputs as they were: the grid, the configuration
\* and the key lists of the processor do not change while process runs, up
\* to its return or its exception, and no list held by a returned record is
\* a list of the grid or a list held by another record.
C17_InputsReadOnly ==
    /\ [][/\ sheet_data' = sheet_data
          /\ config' = config
          /\ array_keys' = array_keys
          /\ ordered_keys' = ordered_keys]_vars
    /\ [](\A i, j \in DOMAIN emitted : \A k, l \in DOMAIN array_keys :
             LET a == emitted[i].lists[k]
                 b == emitted[j].lists[l]
             IN  a.site # "none" =>
                    /\ a \notin GridObjects(sheet_data)
                    /\ (a = b => (i = j /\ k = l)))

\* process has returned two records with an empty list under the same array
\* key, and a record with a non-empty list
C17_Witness ==
    /\ pc = "done"
    /\ \E i, j \in DOMAIN emitted : \E k \in DOMAIN array_keys :
           /\ i # j
           /\ Get(emitted[i].record, array_keys[k]) = List(<<>>)
           /\ Get(emitted[j].record, array_keys[k]) = List(<<>>)
    /\ \E i \in DOMAIN emitted : \E k \in DOMAIN array_keys :
           /\ Get(emitted[i].record, array_keys[k]).t = "list"
           /\ Get(emitted[i].record, array_keys[k]).v # <<>>

\* C18 as stated: every temporary copy a run of main has made is deleted
\* from the drive by the time main returns, on every way out once the copy
\* succeeded.
C18_CopyGoneAtReturn ==
    (mpc = "returned" /\ copied_file_id # "None") => copied_file_id \notin drive

\* C18 amended: on every way out of the with block once the copy succeeded
\* (normal end, early return after a failed or too short fetch, an
\* exception while processing or writing) a delete request has been issued
\* for the copy by the time main returns, and the copy is off the drive
\* unless that request itself failed.
C18_DeleteIssuedOnEveryExit ==
    (mpc = "returned" /\ copied_file_id # "None") =>
        /\ copied_file_id \in delete_requests
        /\ copied_file_id \in drive => copied_file_id \in delete_failed

\* main has returned after an early return from the with block, the copy
\* deleted
C18_Witness ==
    /\ mpc = "returned"
    /\ copied_file_id # "None"
    /\ leaving = "return"
    /\ copied_file_id \in delete_requests
    /\ copied_file_id \notin drive

\* C19: run with --no-monitor, auto_pr only creates the pull request:
\* start_monitoring is not called, and no monitor thread and no monitor_pr
\* subprocess is started.
C19_NoMonitorNeverMonitors ==
    no_monitor =>
        /\ ~monitor_started
        /\ monitor_thread = "None"
        /\ subprocess = "none"

\* C21: when the trimmed cell of the brand column contains the crossover
\* marker anywhere, its tokens are the colon-separated parts, trimmed,
\* without the empty parts and the parts equal to the marker, in order,
\* commas being no split points; without the marker the cell is split like
\* the cell of a default array column.
C21_BrandSplitOnColonWithMarker ==
    tok_result.by = "brand" =>
        tok_result.tokens =
            IF HasMarker(cell_value)
            THEN SelectSeq(TrimmedFields(cell_value, ":"),
                           LAMBDA f : f # CrossMarker)
            ELSE CellTokens("tags", cell_value)

\* a brand cell with the marker inside a longer part, a comma and a colon
C21_Witness ==
    /\ tok_result.by = "brand"
    /\ HasMarker(cell_value)
    /\ \E i, j \in DOMAIN cell_value : cell_value[i] = "," /\ cell_value[j] = ":"
    /\ tok_result.tokens # <<>>
    /\ \A i \in DOMAIN tok_result.tokens : tok_result.tokens[i] # CrossMarker

\* C22: when several columns map to one scalar key, the record holds the
\* trimmed value of the last column, in the order of the mapping, whose cell
\* is usable; a later column that is blank or ignored does not erase what
\* an earlier column wrote.
C22_LastUsableScalarWins ==
    ~HasInvalidLabel(config) =>
        \A i \in DOMAIN emitted : \A key \in ScalarKeys(config) :
            Get(emitted[i].record, key)
                = Str(LastUsableValue(config, sheet_data[emitted[i].row], key))

\* one record keeps the value of the first of two columns of a scalar key,
\* the cell of the second being unusable, and another record holds the value
\* of the second, both cells being usable and different
C22_Witness ==
    /\ ~HasInvalidLabel(config)
    /\ \E key \in ScalarKeys(config) :
           /\ Cardinality(ColumnsOf(config, key)) = 2
           /\ \E i \in DOMAIN emitted :
                  LET row == sheet_data[emitted[i].row]
                      us  == UsableColumnsOf(config, row, key)
                  IN  /\ Cardinality(us) = 1
                      /\ \E j \in ColumnsOf(config, key) \ us : \A u \in us : u < j
                      /\ Get(emitted[i].record, key) # Str(<<>>)
           /\ \E i \in DOMAIN emitted :
                  LET row == sheet_data[emitted[i].row]
                      us  == UsableColumnsOf(config, row, key)
                  IN  /\ Cardinality(us) = 2
                      /\ \E u, v \in us :
                             /\ u < v
                             /\ Trim(CellAt(row, Offset(config.column_mapping[u].col)))
                                    # Get(emitted[i].record, key).v

\* C23: when several columns map to one array key, the record holds the
\* concatenation, in the order of the mapping, of the tokens of each usable
\* column, with the repeated tokens removed: the tokens of an earlier
\* column precede the new tokens of a later column.
C23_ArrayColumnsConcatenated ==
    ~HasInvalidLabel(config) =>
        \A i \in DOMAIN emitted : \A key \in PureArrayKeys(config) :
            Get(emitted[i].record, key)
                = List(FirstOccurrences(Flatten(
                      TokensPerColumn(config, sheet_data[emitted[i].row], key))))

\* a record made from two usable columns of one array key that share a
\* token and each have a token of their own
C23_Witness ==
    /\ ~HasInvalidLabel(config)
    /\ \E i \in DOMAIN emitted : \E key \in PureArrayKeys(config) :
           LET per == TokensPerColumn(config, sheet_data[emitted[i].row], key)
           IN  /\ Len(per) = 2
               /\ Range(per[1]) \cap Range(per[2]) # {}
               /\ Range(per[1]) \ Range(per[2]) # {}
               /\ Range(per[2]) \ Range(per[1]) # {}
               /\ Len(Get(emitted[i].record, key).v) < Len(per[1]) + Len(per[2])

\* C27: what process returns is the stable descending-ID sort of the
\* records _process_row gives, in grid order, for every row from
\* data_start_row up to but excluding the first terminal row: one record
\* per row, an all-default record included, none dropped, merged or
\* repeated, as many records as rows.
C27_OutputIsSortedMapOfRows ==
    (pc = "done" /\ ValidCheckRange(config)) =>
        /\ processed_list
               = StableDescending(RowRecords(config, sheet_data,
                                             array_keys, ordered_keys))
        /\ Len(processed_list) = Cardinality(DataRowNumbers(config, sheet_data))

\* process has returned several records, one of them all defaults, from a
\* grid with a terminal row
C27_Witness ==
    /\ pc = "done"
    /\ ValidCheckRange(config)
    /\ Len(processed_list) >= 2
    /\ FirstEnd(config, sheet_data) <= Len(sheet_data)
    /\ \E n \in DOMAIN processed_list :
           processed_list[n] = NewRecord(array_keys, ordered_keys)

\* C28: in every record _process_row returns, the value of a key some column
\* maps with isArray true is a sequence of strings and the value of every
\* other key is a single string, also when a scalar column and an array
\* column share the key: the value of an array key is never a string, nor
\* the single characters of a scalar cell.
C28_ValueShapeFollowsKey ==
    ~HasInvalidLabel(config) =>
        \A i \in DOMAIN emitted : \A n \in DOMAIN emitted[i].record :
            LET key == emitted[i].record[n].key
                val == emitted[i].record[n].val
            IN  IF key \in ArrayKeySet(config)
                THEN /\ val.t = "list"
                     /\ \A cell \in ScalarCellsOf(config,
                                         sheet_data[emitted[i].row], key) :
                            val.v # SingleCharacters(cell)
                ELSE val.t = "str"

\* C30: under every interleaving of the main thread and the monitor thread,
\* start_monitoring returns once the monitor subprocess has ended or could
\* not be started (unless SIGINT ends the program first): the wait loop
\* does not go on after the thread finished; the flag is set before the
\* thread starts, so once the thread has cleared it the flag stays False;
\* and when start_monitoring returns the flag is False.
C30_StartMonitoringReturns ==
    /\ [](apc = "monitored" => ~monitoring)
    /\ [](monitor_thread \in {"ending", "dead"} => ~monitoring)
    /\ [](monitor_thread # "None" => monitor_started)
    /\ (monitor_thread \in {"finally", "ending", "dead"})
           ~> (apc \in {"monitored", "exited"})

\* start_monitoring has returned after the subprocess ended and the thread
\* finished
C30_Witness ==
    /\ apc = "monitored"
    /\ monitor_thread = "dead"
    /\ subprocess = "ended"

\* C24: monitor_pr leaves its polling loop, reporting that all checks have
\* completed, only when the status-check list of the PR is not empty and
\* every check in it is completed; while the list is empty or some check is
\* not completed, whatever its status, it sleeps and polls again; and a
\* failed fetch never ends the loop.
C24_LeavesOnlyWhenAllCompleted ==
    /\ mon_pc = "left" =>
           /\ pr_info.ok
           /\ pr_info.checks # <<>>
           /\ \A n \in DOMAIN pr_info.checks :
                  pr_info.checks[n].status = "COMPLETED"
    /\ (mon_pc = "sleep" /\ pr_info.ok) =>
           \/ pr_info.checks = <<>>
           \/ \E n \in DOMAIN pr_info.checks :
                  pr_info.checks[n].status # "COMPLETED"

\* C25: verify_fixes terminates after the initial wait and at most 30
\* status polls (max_wait 300 at check_interval 10); it returns True only
\* if a poll saw status completed with conclusion success, returns False
\* as soon as a poll sees completed with another conclusion, and returns
\* False on timeout or when no workflow run is found; a poll that fails or
\* cannot be parsed counts toward the limit and does not end the loop.
C25_VerifyFixesTerminates ==
    /\ [](polls <= max_wait \div check_interval)
    /\ [](verify_returned = "True" => last_poll = "success")
    /\ [](last_poll = "failure" => verify_returned = "False")
    /\ []((fpc = "returned" /\ commit_status = "pushed"
              /\ last_poll \notin {"success", "failure"})
             => verify_returned = "False")
    /\ [](last_poll \in {"failed", "unparseable", "in_progress"}
             => /\ elapsed = check_interval * polls
                /\ elapsed < max_wait => fpc = "verify_loop")
    /\ (fpc = "verify_wait") ~> (verify_returned # "none")

\* verify_fixes has returned False on timeout after 30 polls, one of which
\* failed and one of which could not be parsed
C25_Witness ==
    /\ verify_returned = "False"
    /\ polls = 30
    /\ elapsed = max_wait
    /\ last_poll = "unparseable"

\* C26: fix_all_errors returns True only if all fixes succeeded: when
\* errors were found, a True result means every fix step that was attempted
\* returned success and the fixes were committed, pushed and verified; it
\* never returns True after a fix step failed or after commit or push
\* failed.
C26_TrueOnlyWhenAllFixed ==
    (fix_returned = "True" /\ AnyErrors(errors)) =>
        /\ \A n \in DOMAIN steps : steps[n].ok
        /\ commit_status = "pushed"
        /\ verify_returned = "True"

\* C29: in one run of main of cleanup_drive_storage.py each Drive file id
\* is the target of at most one delete request: a file that is a temporary
\* file by its name and an old file by its age is deleted once, and is not
\* counted afterwards as a failed deletion.
C29_OneDeleteRequestPerFile ==
    /\ NoRepeat(requests)
    /\ \A n \in DOMAIN failures : ~failures[n].gone

=============================================================================
